---------------------------- MODULE Spec2Model ----------------------------
(***************************************************************************)
(* CloudRaidFS (hwxqyworld/DataManager): Reed-Solomon codec, RAID stripe   *)
(* store, file layer, asynchronous uploader and metadata store, modelled   *)
(* from the C++ sources.  Strings are sequences of bytes (0..255); C++     *)
(* vectors and matrices that the code indexes from 0 are functions on      *)
(* 0..n-1.                                                                 *)
(***************************************************************************)
EXTENDS Integers, Sequences, FiniteSets, TLC

VARIABLES
    k_, m_,             \* erasure parameters (RAIDChunkStore::k, m; AsyncUploader::k_, m_)
    c_pc, c_data,       \* codec harness: position, plaintext given to encode
    c_chunks, c_erased, \* the k+m chunks handed to decode, indices emptied
    c_res,              \* what decode returned
    backends,           \* backends[i][stripe_id]: shard i of the stripe (ChunkStore)
    repairs,            \* detached repair threads of RAIDChunkStore::read_chunk
    next_stripe_id,     \* RAIDChunkStore::next_stripe_id
    files, directories, \* MetadataManager::files, directories
    chunk_cache,        \* ChunkCache: cache_, current_size_
    file_cache,         \* FileCache: cache_, current_size_
    now,                \* steady_clock, in seconds
    mounted,            \* the process is running
    hist,               \* the last call with its result, and the write before it
    stored,             \* history: plaintext last given to write_chunk, per stripe
    healing,            \* history: stripes read with 1..m shards absent since
    saved,              \* history: the tables when the process last shut down
    written,            \* history: stripe ids that have been written
    steps,              \* number of calls made
    spool,              \* AsyncUploader: files of cache_dir, by stripe id and name
    queue,              \* AsyncUploader::queue_
    pending_stripes,    \* AsyncUploader::pending_stripes_
    running,            \* AsyncUploader::running_ (the process is alive)
    workers,            \* worker threads: position in worker_func, task held
    flush_pc,           \* the thread calling AsyncUploader::flush
    gave_up,            \* history: shards counted in total_chunks_failed_
    rejects,            \* history: backend writes that returned false
    clean,              \* history: restarted, no write or rejection since
    crashes,            \* number of process crashes
    writer,             \* the thread in async_write_stripe, file by file
    threads             \* request threads: the call each runs, position, locals

codecVars == <<c_pc, c_data, c_chunks, c_erased, c_res>>

storeVars == <<backends, repairs, next_stripe_id>>

fsVars == <<files, directories, chunk_cache, file_cache, now, mounted>>

histVars == <<hist, stored, healing, saved, written, steps>>

upVars == <<spool, queue, pending_stripes, running, workers, flush_pc, gave_up, rejects,
            clean, crashes, writer, threads>>

(***************************************************************************)
(* Bounds of the model.                                                    *)
(***************************************************************************)
MaxK == 3          \* data shards k range over 1..MaxK
MaxM == 2          \* parity shards m range over 1..MaxM
MaxLen == 3        \* codec plaintexts have 0..MaxLen bytes
MaxByte == 2       \* plaintext bytes range over 0..MaxByte

ByteVals == 0..MaxByte

RECURSIVE SeqsUpTo(_, _)
SeqsUpTo(S, n) ==
    IF n = 0 THEN {<<>>}
    ELSE LET shorter == SeqsUpTo(S, n - 1)
         IN shorter \cup {Append(s, x) : s \in {t \in shorter : Len(t) = n - 1}, x \in S}

Zeros(n) == [i \in 1..n |-> 0]

\* let x be the value of an expression in F: the expression is evaluated once
Bind(x, F(_)) == F(x)

(***************************************************************************)
(* GF(2^8) arithmetic (rs_coder.cpp).                                      *)
(***************************************************************************)
RECURSIVE Xor(_, _)
Xor(a, b) ==
    IF a = 0 THEN b
    ELSE IF b = 0 THEN a
    ELSE (((a % 2) + (b % 2)) % 2) + (2 * Xor(a \div 2, b \div 2))

\* the body of the while (bb) loop of gf_init_table
RECURSIVE gf_mul_loop(_, _, _)
gf_mul_loop(aa, bb, x) ==
    IF bb = 0 THEN x
    ELSE LET x1 == IF bb % 2 = 1 THEN Xor(x, aa) ELSE x
             hi == aa >= 128
             a1 == (aa * 2) % 256
             a2 == IF hi THEN Xor(a1, 29) ELSE a1
         IN gf_mul_loop(a2, bb \div 2, x1)

\* static uint8_t gf_mul_table[256][256], filled once by gf_init_table
gf_mul_table == [a \in 0..255 |-> [b \in 0..255 |-> gf_mul_loop(a, b, 0)]]

gf_mul(a, b) == gf_mul_table[a][b]

\* the first i in 1..255 with a * i = 1, and 0 when there is none
gf_inv(a) ==
    IF a = 0 THEN 0
    ELSE IF \E i \in 1..255 : gf_mul(a, i) = 1
         THEN CHOOSE i \in 1..255 :
                  gf_mul(a, i) = 1 /\ \A j \in 1..(i - 1) : gf_mul(a, j) # 1
         ELSE 0

\* v = 1; v = gf_mul(v, x) col times
RECURSIVE gf_pow(_, _)
gf_pow(x, col) == IF col = 0 THEN 1 ELSE gf_mul(gf_pow(x, col - 1), x)

build_matrix(k, m) ==
    [row \in 0..(k + m - 1) |-> [col \in 0..(k - 1) |-> gf_pow((row + 1) % 256, col)]]

(***************************************************************************)
(* The 8-byte little-endian length header of chunk 0.                      *)
(***************************************************************************)
\* memcpy of an unsigned integer, least significant byte first
RECURSIVE LE(_, _)
LE(n, width) == IF width = 0 THEN <<>> ELSE <<n % 256>> \o LE(n \div 256, width - 1)

\* a value read from the wire that exceeds every length in the model
WIRE_SAT == 16777216

\* the little-endian value of width >= 3 bytes at 1-based position at;
\* values of 2^24 and above are reported as WIRE_SAT
FromLE(s, at, width) ==
    IF \E j \in 3..(width - 1) : s[at + j] # 0 THEN WIRE_SAT
    ELSE s[at] + (256 * s[at + 1]) + (65536 * s[at + 2])

HeaderLen == 8

(***************************************************************************)
(* RSCoder::encode                                                         *)
(***************************************************************************)
RECURSIVE XorSum(_, _)
XorSum(f, n) == IF n = 0 THEN 0 ELSE Xor(f[n - 1], XorSum(f, n - 1))

encode(data, k, m) ==
    LET chunk_size == (Len(data) + k - 1) \div k
        padded == data \o Zeros(chunk_size * k - Len(data))
        mat == build_matrix(k, m)
        body(row) ==
            [b \in 1..chunk_size |->
                XorSum([col \in 0..(k - 1) |->
                           gf_mul(mat[row][col], padded[col * chunk_size + b])], k)]
    IN [row \in 0..(k + m - 1) |->
           IF row = 0 THEN LE(Len(data), HeaderLen) \o body(0) ELSE body(row)]

(***************************************************************************)
(* RSCoder::solve_matrix: Gaussian elimination without row exchange.  The  *)
(* matrix is taken by reference and is left in its eliminated form.        *)
(***************************************************************************)
RECURSIVE sm_forward(_, _, _, _)
sm_forward(mat, vec, i, n) ==
    IF i = n THEN [ok |-> TRUE, mat |-> mat, vec |-> vec]
    ELSE IF mat[i][i] = 0 THEN [ok |-> FALSE, mat |-> mat, vec |-> vec]
    ELSE LET inv == gf_inv(mat[i][i])
             rowi == [j \in 0..(n - 1) |->
                         IF j >= i THEN gf_mul(mat[i][j], inv) ELSE mat[i][j]]
             veci == gf_mul(vec[i], inv)
             mat2 == [r \in 0..(n - 1) |->
                         IF r = i THEN rowi
                         ELSE IF r > i /\ mat[r][i] # 0
                              THEN [c \in 0..(n - 1) |->
                                       IF c >= i
                                       THEN Xor(mat[r][c], gf_mul(mat[r][i], rowi[c]))
                                       ELSE mat[r][c]]
                              ELSE mat[r]]
             vec2 == [r \in 0..(n - 1) |->
                         IF r = i THEN veci
                         ELSE IF r > i /\ mat[r][i] # 0
                              THEN Xor(vec[r], gf_mul(mat[r][i], veci))
                              ELSE vec[r]]
         IN IF inv = 0 THEN [ok |-> FALSE, mat |-> mat, vec |-> vec]
            ELSE sm_forward(mat2, vec2, i + 1, n)

\* sol[i] = vec[i] ^ XOR_{j > i} mat[i][j] * sol[j], for i = n-1 down to 0
RECURSIVE sm_back(_, _, _, _)
sm_back(mat, vec, i, n) ==
    IF i = n THEN [j \in 0..(n - 1) |-> 0]
    ELSE LET later == sm_back(mat, vec, i + 1, n)
             acc == Xor(vec[i],
                        XorSum([j \in 0..(n - 1) |->
                                   IF j > i THEN gf_mul(mat[i][j], later[j]) ELSE 0], n))
         IN [later EXCEPT ![i] = acc]

solve_matrix(mat, vec) ==
    Bind(sm_forward(mat, vec, 0, Cardinality(DOMAIN mat)), LAMBDA fw :
        IF fw.ok
        THEN [ok |-> TRUE, mat |-> fw.mat,
              sol |-> sm_back(fw.mat, fw.vec, 0, Cardinality(DOMAIN mat))]
        ELSE [ok |-> FALSE, mat |-> fw.mat, sol |-> vec])

(***************************************************************************)
(* RSCoder::decode.  The result is [ok, data]; data is meaningful only     *)
(* when ok.  The k x k matrix is built once, before the loop over byte     *)
(* positions, and every solve_matrix call of the loop works on that same   *)
(* matrix object.                                                          *)
(***************************************************************************)
DecodeFail == [ok |-> FALSE, data |-> <<>>]

\* first_valid without the test for an empty chunk
RECURSIVE first_valid_any(_, _, _, _)
first_valid_any(chunks, i, n, k) ==
    IF i = n \/ k = 0 THEN <<>>
    ELSE <<i>> \o first_valid_any(chunks, i + 1, n, k - 1)

\* the first k indices of non-empty chunks, in increasing order
RECURSIVE first_valid(_, _, _, _)
first_valid(chunks, i, n, k) ==
    IF i = n \/ k = 0 THEN <<>>
    ELSE IF chunks[i] # <<>>
         THEN <<i>> \o first_valid(chunks, i + 1, n, k - 1)
         ELSE first_valid(chunks, i + 1, n, k)

decode_matrix(valid, k) ==
    [r \in 0..(k - 1) |-> [c \in 0..(k - 1) |-> gf_pow((valid[r + 1] + 1) % 256, c)]]

\* offset of byte b inside chunk idx (1-based position in the sequence)
chunk_pos(idx, b) == IF idx = 0 THEN HeaderLen + b + 1 ELSE b + 1

\* one turn of the loop over byte positions: [ok, mat, sols]
decode_byte(chunks, valid, mat, b, k) ==
    IF \E r \in 1..k : Len(chunks[valid[r]]) < chunk_pos(valid[r], b)
    THEN [ok |-> FALSE, mat |-> mat, sols |-> <<>>]
    ELSE Bind(solve_matrix(mat, [r \in 0..(k - 1) |->
                                    chunks[valid[r + 1]][chunk_pos(valid[r + 1], b)]]),
              LAMBDA res : [ok |-> res.ok, mat |-> res.mat, sols |-> <<res.sol>>])

\* the turns for byte positions lo..hi-1, in order, each starting from the
\* matrix the one before left: [ok, mat, sols]
RECURSIVE decode_bytes(_, _, _, _, _, _)
decode_bytes(chunks, valid, mat, lo, hi, k) ==
    IF hi = lo THEN [ok |-> TRUE, mat |-> mat, sols |-> <<>>]
    ELSE IF hi = lo + 1 THEN decode_byte(chunks, valid, mat, lo, k)
    ELSE Bind(decode_bytes(chunks, valid, mat, lo, (lo + hi) \div 2, k), LAMBDA first :
             IF ~first.ok THEN first
             ELSE Bind(decode_bytes(chunks, valid, first.mat, (lo + hi) \div 2, hi, k),
                       LAMBDA rest : [ok |-> rest.ok, mat |-> rest.mat,
                                      sols |-> first.sols \o rest.sols]))

\* out[col * chunk_size + b] = sol[col]
decode_valid(chunks, k, valid, orig_size, chunk_size) ==
    Bind(decode_bytes(chunks, valid, decode_matrix(valid, k), 0, chunk_size, k),
         LAMBDA res :
             IF ~res.ok THEN DecodeFail
             ELSE IF chunk_size * k < orig_size THEN DecodeFail
             ELSE [ok |-> TRUE,
                   data |-> [p \in 1..orig_size |->
                                res.sols[((p - 1) % chunk_size) + 1]
                                        [(p - 1) \div chunk_size]]])

decode(chunks, k, m) ==
    IF Cardinality(DOMAIN chunks) # k + m THEN DecodeFail
    ELSE IF Len(chunks[0]) < HeaderLen THEN DecodeFail
    ELSE Bind(first_valid(chunks, 0, k + m, k), LAMBDA valid :
             IF Len(valid) < k THEN DecodeFail
             ELSE decode_valid(chunks, k, valid, FromLE(chunks[0], 1, HeaderLen),
                               IF valid[1] = 0 THEN Len(chunks[0]) - HeaderLen
                               ELSE Len(chunks[valid[1]])))

(***************************************************************************)
(* Finite maps (std::unordered_map) as functions.                          *)
(***************************************************************************)
MapPut(f, key, val) == [x \in (DOMAIN f) \cup {key} |-> IF x = key THEN val ELSE f[x]]

MapDrop(f, key) == [x \in (DOMAIN f) \ {key} |-> f[x]]

EmptyMap == [x \in {} |-> 0]

Min(a, b) == IF a < b THEN a ELSE b

\* std::string::resize(n, 0) of a string not longer than n
PadTo(s, n) == IF Len(s) < n THEN s \o Zeros(n - Len(s)) ELSE s

(***************************************************************************)
(* ChunkCache and FileCache (chunk_cache.cpp, file_cache.cpp).  The two    *)
(* classes share their code but for FileCache's max_file_size test and its *)
(* heat score.  A cache is [entries, current_size]; the configuration is   *)
(* [max_cache_size, max_file_size, ttl, by_size].  Time is in seconds.     *)
(***************************************************************************)
EmptyCache == [entries |-> EmptyMap, current_size |-> 0]

\* remove_entry that forgets current_size_
cache_remove_entry_keep(c, key) ==
    IF key \notin DOMAIN c.entries THEN c
    ELSE [entries |-> MapDrop(c.entries, key), current_size |-> c.current_size]

cache_remove_entry(c, key) ==
    IF key \notin DOMAIN c.entries THEN c
    ELSE [entries |-> MapDrop(c.entries, key),
          current_size |-> c.current_size - Len(c.entries[key].data)]

\* get without the test of expire_time
cache_get_any(c, key, t, cfg) ==
    IF key \notin DOMAIN c.entries
    THEN [hit |-> FALSE, data |-> <<>>, cache |-> c]
    ELSE [hit |-> TRUE, data |-> c.entries[key].data,
          cache |-> [c EXCEPT !.entries[key].expire_time = t + cfg.ttl,
                              !.entries[key].access_count = @ + 1]]

\* get: [hit, data, cache]
cache_get(c, key, t, cfg) ==
    IF key \notin DOMAIN c.entries
    THEN [hit |-> FALSE, data |-> <<>>, cache |-> c]
    ELSE IF t > c.entries[key].expire_time
    THEN [hit |-> FALSE, data |-> <<>>, cache |-> cache_remove_entry(c, key)]
    ELSE [hit |-> TRUE, data |-> c.entries[key].data,
          cache |-> [c EXCEPT !.entries[key].expire_time = t + cfg.ttl,
                              !.entries[key].access_count = @ + 1]]

\* calc_heat_score as a fraction [num, den]; -1 for an expired entry
calc_heat_score(entry, t, cfg) ==
    LET time_to_expire == entry.expire_time - t
    IN IF time_to_expire < 0 THEN [num |-> -1, den |-> 1]
       ELSE [num |-> entry.access_count * (time_to_expire + 1),
             den |-> IF cfg.by_size THEN (Len(entry.data) \div 1024) + 1 ELSE 1]

HeatLE(a, b) == a.num * b.den <= b.num * a.den

RECURSIVE cache_purge_expired(_, _, _)
cache_purge_expired(c, keys, t) ==
    IF keys = {} THEN c
    ELSE Bind(CHOOSE x \in keys : TRUE, LAMBDA key :
             cache_purge_expired(IF t > c.entries[key].expire_time
                                 THEN cache_remove_entry(c, key) ELSE c,
                                 keys \ {key}, t))

\* the loop over scored_entries: the coldest entry goes first
RECURSIVE cache_evict(_, _, _, _)
cache_evict(c, needed_size, t, cfg) ==
    IF c.current_size + needed_size <= cfg.max_cache_size \/ DOMAIN c.entries = {}
    THEN c
    ELSE cache_evict(cache_remove_entry(c,
                         CHOOSE x \in DOMAIN c.entries :
                             \A y \in DOMAIN c.entries :
                                 HeatLE(calc_heat_score(c.entries[x], t, cfg),
                                        calc_heat_score(c.entries[y], t, cfg))),
                     needed_size, t, cfg)

\* make_room: [ok, cache]
cache_make_room(c, needed_size, t, cfg) ==
    IF needed_size > cfg.max_cache_size THEN [ok |-> FALSE, cache |-> c]
    ELSE Bind(cache_evict(cache_purge_expired(c, DOMAIN c.entries, t),
                          needed_size, t, cfg),
              LAMBDA c2 :
                  [ok |-> c2.current_size + needed_size <= cfg.max_cache_size,
                   cache |-> c2])

cache_put(c, key, data, t, cfg) ==
    IF cfg.by_size /\ Len(data) > cfg.max_file_size THEN c
    ELSE Bind(cache_make_room(cache_remove_entry(c, key), Len(data), t, cfg),
              LAMBDA r :
                  IF ~r.ok THEN r.cache
                  ELSE [entries |-> MapPut(r.cache.entries, key,
                                           [data |-> data, expire_time |-> t + cfg.ttl,
                                            access_count |-> 1]),
                        current_size |-> r.cache.current_size + Len(data)])

cache_invalidate(c, key) == cache_remove_entry(c, key)

(***************************************************************************)
(* RAIDChunkStore (raid_chunk_store.cpp).  backends[i] maps a stripe id to *)
(* the shard stored on backend i.  A detached repair thread is a record    *)
(* [stripe_id, todo, data]: todo holds the shard indices still to write.   *)
(***************************************************************************)
Shards == 0..(k_ + m_ - 1)

\* the k+m backend reads of read_chunk: a failed or empty read leaves ""
raid_fetch(b, stripe_id) ==
    [i \in Shards |-> IF stripe_id \in DOMAIN b[i] THEN b[i][stripe_id] ELSE <<>>]

raid_present(b, stripe_id) == {i \in Shards : raid_fetch(b, stripe_id)[i] # <<>>}

\* what read_chunk returns on failure
ReadFail(stripe_id) ==
    [ok |-> FALSE, data |-> <<>>, spawn |-> FALSE,
     repair |-> [stripe_id |-> stripe_id, todo |-> {}, data |-> <<>>]]

\* read_chunk: [ok, data, spawn, repair]
raid_read_chunk(b, stripe_id) ==
    IF Cardinality(raid_present(b, stripe_id)) < k_ THEN ReadFail(stripe_id)
    ELSE Bind(decode(raid_fetch(b, stripe_id), k_, m_), LAMBDA d :
             IF ~d.ok THEN ReadFail(stripe_id)
             ELSE [ok |-> TRUE, data |-> d.data, spawn |-> TRUE,
                   repair |-> [stripe_id |-> stripe_id,
                               todo |-> Shards \ raid_present(b, stripe_id),
                               data |-> d.data]])

\* write_chunk: every backend stores its shard
raid_write_chunk(b, stripe_id, data) ==
    Bind(encode(data, k_, m_), LAMBDA chunks :
        [i \in Shards |-> MapPut(b[i], stripe_id, chunks[i])])

\* one backend write of repair_missing_chunks
repair_write(b, task, i) ==
    [b EXCEPT ![i] = MapPut(@, task.stripe_id, encode(task.data, k_, m_)[i])]

\* a repair thread with nothing to write ends at once
spawn_repair(rs, r) ==
    IF r.spawn /\ r.repair.todo # {} THEN rs \cup {r.repair} ELSE rs

NEXT_STRIPE_ID_INIT == 100

(***************************************************************************)
(* MetadataManager's file table (metadata_manager.cpp, basic operations):  *)
(* files maps a path to [size, stripes].  A path is a sequence of bytes.   *)
(***************************************************************************)
FileMeta == [size |-> 0, stripes |-> <<>>]

exists(tbl, path) == path \in DOMAIN tbl

create_file(tbl, path) == IF exists(tbl, path) THEN tbl ELSE MapPut(tbl, path, FileMeta)

remove_file(tbl, path) == IF exists(tbl, path) THEN MapDrop(tbl, path) ELSE tbl

set_size(tbl, path, size) == [create_file(tbl, path) EXCEPT ![path].size = size]

get_size(tbl, path) == IF exists(tbl, path) THEN tbl[path].size ELSE 0

add_stripe(tbl, path, stripe_id) ==
    [create_file(tbl, path) EXCEPT ![path].stripes = Append(@, stripe_id)]

get_stripes(tbl, path) == IF exists(tbl, path) THEN tbl[path].stripes ELSE <<>>

(***************************************************************************)
(* FileManager (file_manager.cpp).  The operators thread a record w of the *)
(* objects a call touches: backends, repairs, next_stripe_id, files,       *)
(* chunk_cache, file_cache and the clock now.  STRIPE_SIZE is 4 MiB in the *)
(* source; the cache sizes are configuration values, in stripes here.      *)
(***************************************************************************)
STRIPE_SIZE == 64

ChunkCacheStripes == 1

FileCacheStripes == 2

CacheTTL == 1

ChunkCfg == [max_cache_size |-> ChunkCacheStripes * STRIPE_SIZE, max_file_size |-> 0,
             ttl |-> CacheTTL, by_size |-> FALSE]

FileCfg == [max_cache_size |-> FileCacheStripes * STRIPE_SIZE, max_file_size |-> STRIPE_SIZE,
            ttl |-> CacheTTL, by_size |-> TRUE]

\* read_stripe after a chunk-cache miss; c is the cache the miss left
read_stripe_raid(w, stripe_id, c, r) ==
    IF ~r.ok
    THEN [w |-> [w EXCEPT !.chunk_cache = c, !.repairs = spawn_repair(@, r)],
          data |-> Zeros(STRIPE_SIZE)]
    ELSE [w |-> [w EXCEPT !.chunk_cache = cache_put(c, stripe_id,
                                                    PadTo(r.data, STRIPE_SIZE),
                                                    w.now, ChunkCfg),
                          !.repairs = spawn_repair(@, r)],
          data |-> PadTo(r.data, STRIPE_SIZE)]

\* read_stripe: [w, data]; it has no failing return
read_stripe(w, stripe_id) ==
    Bind(cache_get(w.chunk_cache, stripe_id, w.now, ChunkCfg), LAMBDA g :
        IF g.hit
        THEN [w |-> [w EXCEPT !.chunk_cache = g.cache],
              data |-> PadTo(g.data, STRIPE_SIZE)]
        ELSE read_stripe_raid(w, stripe_id, g.cache,
                              raid_read_chunk(w.backends, stripe_id)))

\* write_stripe: [w, ok]
write_stripe(w, stripe_id, data) ==
    [w |-> [w EXCEPT !.backends = raid_write_chunk(@, stripe_id, data),
                     !.chunk_cache = cache_put(cache_invalidate(@, stripe_id),
                                               stripe_id, data, w.now, ChunkCfg)],
     ok |-> TRUE]

\* ensure_stripe: [w, id]; the while loop allocates one id per missing index
ensure_stripe(w, path, stripe_index) ==
    LET stripes == get_stripes(w.files, path)
        n == (stripe_index + 1) - Len(stripes)
        fresh == [j \in 1..n |-> w.next_stripe_id + (j - 1)]
    IN IF stripe_index < Len(stripes)
       THEN [w |-> w, id |-> stripes[stripe_index + 1]]
       ELSE [w |-> [w EXCEPT !.next_stripe_id = @ + n,
                             !.files = [create_file(@, path) EXCEPT
                                            ![path].stripes = @ \o fresh]],
             id |-> fresh[n]]

\* memcpy(&stripe_data[stripe_offset], data, to_write)
Overlay(stripe_data, stripe_offset, data) ==
    [i \in 1..Len(stripe_data) |->
        IF i > stripe_offset /\ i <= stripe_offset + Len(data)
        THEN data[i - stripe_offset] ELSE stripe_data[i]]

\* one pass of the while loop of write: the bytes of data that fall into
\* stripe index idx, with pos the file position they start at; [w, ok]
fm_write_pass(w, path, offset, data, idx, pos) ==
    Bind(ensure_stripe(w, path, idx), LAMBDA e :
    Bind(read_stripe(e.w, e.id), LAMBDA r :
        write_stripe(r.w, e.id,
                     Overlay(r.data, pos % STRIPE_SIZE,
                             SubSeq(data, (pos - offset) + 1,
                                    Min(offset + Len(data), (idx + 1) * STRIPE_SIZE)
                                        - offset)))))

\* the while loop of write over the stripe indices lo..hi, in order: [w, ok]
RECURSIVE fm_write_loop(_, _, _, _, _, _)
fm_write_loop(w, path, offset, data, lo, hi) ==
    IF lo > hi THEN [w |-> w, ok |-> TRUE]
    ELSE IF lo = hi
         THEN fm_write_pass(w, path, offset, data, lo,
                            IF lo * STRIPE_SIZE > offset THEN lo * STRIPE_SIZE ELSE offset)
         ELSE Bind(fm_write_loop(w, path, offset, data, lo, (lo + hi) \div 2), LAMBDA a :
                  IF ~a.ok THEN a
                  ELSE fm_write_loop(a.w, path, offset, data, ((lo + hi) \div 2) + 1, hi))

\* FileManager::write: [w, ok]
fm_write(w, path, offset, data) ==
    Bind(fm_write_loop([w EXCEPT !.file_cache = cache_invalidate(@, path)],
                       path, offset, data, offset \div STRIPE_SIZE,
                       IF data = <<>> THEN (offset \div STRIPE_SIZE) - 1
                       ELSE (offset + Len(data) - 1) \div STRIPE_SIZE),
         LAMBDA r :
             IF ~r.ok THEN r
             ELSE [w |-> IF offset + Len(data) > get_size(r.w.files, path)
                         THEN [r.w EXCEPT !.files = set_size(@, path, offset + Len(data))]
                         ELSE r.w,
                   ok |-> TRUE])

\* read_full_file: [w, out]
RECURSIVE read_full_loop(_, _, _, _, _)
read_full_loop(w, stripes, i, remaining, out) ==
    IF i > Len(stripes) \/ remaining = 0 THEN [w |-> w, out |-> out]
    ELSE Bind(read_stripe(w, stripes[i]), LAMBDA r :
             read_full_loop(r.w, stripes, i + 1, remaining - Min(remaining, STRIPE_SIZE),
                            out \o SubSeq(r.data, 1, Min(remaining, STRIPE_SIZE))))

read_full_file(w, path) ==
    IF get_size(w.files, path) = 0 THEN [w |-> w, out |-> <<>>]
    ELSE read_full_loop(w, get_stripes(w.files, path), 1, get_size(w.files, path), <<>>)

\* the stripe-by-stripe loop of read: [w, out]
RECURSIVE fm_read_loop(_, _, _, _, _)
fm_read_loop(w, path, pos, remaining, out) ==
    IF remaining = 0 THEN [w |-> w, out |-> out]
    ELSE Bind(Min(remaining, STRIPE_SIZE - (pos % STRIPE_SIZE)), LAMBDA to_read :
         Bind(IF pos \div STRIPE_SIZE < Len(get_stripes(w.files, path))
              THEN read_stripe(w, get_stripes(w.files, path)[(pos \div STRIPE_SIZE) + 1])
              ELSE [w |-> w, data |-> Zeros(STRIPE_SIZE)],
              LAMBDA r :
                  fm_read_loop(r.w, path, pos + to_read, remaining - to_read,
                               out \o SubSeq(r.data, (pos % STRIPE_SIZE) + 1,
                                             (pos % STRIPE_SIZE) + to_read))))

\* the whole-file branch of read, after the file-cache lookup g
fm_read_whole(w, path, g) ==
    IF g.hit THEN [w |-> [w EXCEPT !.file_cache = g.cache], ok |-> TRUE, out |-> g.data]
    ELSE Bind(read_full_file([w EXCEPT !.file_cache = g.cache], path), LAMBDA f :
             [w |-> [f.w EXCEPT !.file_cache = cache_put(@, path, f.out, w.now, FileCfg)],
              ok |-> TRUE, out |-> f.out])

\* the partial branch of read, after the file-cache lookup g
fm_read_part(w, path, offset, size, g) ==
    IF g.hit /\ offset + size <= Len(g.data)
    THEN [w |-> [w EXCEPT !.file_cache = g.cache], ok |-> TRUE,
          out |-> SubSeq(g.data, offset + 1, offset + size)]
    ELSE Bind(fm_read_loop([w EXCEPT !.file_cache = g.cache], path, offset, size, <<>>),
              LAMBDA l : [w |-> l.w, ok |-> TRUE, out |-> l.out])

\* read with the size already clipped to the file size
fm_read_clipped(w, path, offset, size) ==
    IF offset = 0 /\ size = get_size(w.files, path)
    THEN fm_read_whole(w, path, cache_get(w.file_cache, path, w.now, FileCfg))
    ELSE fm_read_part(w, path, offset, size,
                      cache_get(w.file_cache, path, w.now, FileCfg))

\* FileManager::read: [w, ok, out]
fm_read(w, path, offset, size) ==
    IF offset >= get_size(w.files, path) THEN [w |-> w, ok |-> TRUE, out |-> <<>>]
    ELSE fm_read_clipped(w, path, offset,
                         IF offset + size > get_size(w.files, path)
                         THEN get_size(w.files, path) - offset ELSE size)

\* FileManager::truncate: [w, ok]
RECURSIVE invalidate_all(_, _, _)
invalidate_all(c, stripes, i) ==
    IF i > Len(stripes) THEN c
    ELSE invalidate_all(cache_invalidate(c, stripes[i]), stripes, i + 1)

fm_truncate(w, path, new_size) ==
    [w |-> [w EXCEPT !.file_cache = cache_invalidate(@, path),
                     !.chunk_cache = invalidate_all(@, get_stripes(w.files, path), 1),
                     !.files = set_size(@, path, new_size)],
     ok |-> TRUE]

(***************************************************************************)
(* MetadataManager::save_to_backend and load_from_backend                  *)
(* (metadata_manager.cpp).  The table is serialised as u32 file_count,     *)
(* per file u32 path_len, path, u64 size, u32 stripe_count, u64 stripe     *)
(* ids, then u32 dir_count and per directory u32 path_len, path.           *)
(***************************************************************************)
META_PATH == <<47, 46, 95, 95, 99, 108, 111, 117, 100, 114, 97, 105, 100, 102, 115, 95,
               109, 101, 116, 97>>

\* 16 MiB in the source: four stripes
MAX_META_SIZE == 4 * STRIPE_SIZE

\* read_u32 / read_u64 at 1-based position at; values of 2^24 and above
\* are reported as WIRE_SAT
read_uint(s, at, width) ==
    IF \E j \in 3..(width - 1) : s[at + j] # 0 THEN WIRE_SAT
    ELSE s[at] + (256 * s[at + 1]) + (65536 * s[at + 2])

\* write_u64 of every stripe id from the i-th on
write_u64s(stripes, i) ==
    [j \in 1..(8 * (Len(stripes) - (i - 1))) |->
        LE(stripes[(i - 1) + ((j - 1) \div 8) + 1], 8)[((j - 1) % 8) + 1]]

RECURSIVE ser_files(_, _)
ser_files(tbl, paths) ==
    IF paths = {} THEN <<>>
    ELSE LET path == CHOOSE x \in paths : TRUE
         IN LE(Len(path), 4) \o path \o LE(tbl[path].size, 8)
            \o LE(Len(tbl[path].stripes), 4) \o write_u64s(tbl[path].stripes, 1)
            \o ser_files(tbl, paths \ {path})

RECURSIVE ser_dirs(_)
ser_dirs(dirs) ==
    IF dirs = {} THEN <<>>
    ELSE LET path == CHOOSE x \in dirs : TRUE
         IN LE(Len(path), 4) \o path \o ser_dirs(dirs \ {path})

UserPaths(tbl) == (DOMAIN tbl) \ {META_PATH}

serialize(tbl, dirs) ==
    LE(Cardinality(UserPaths(tbl)), 4) \o ser_files(tbl, UserPaths(tbl))
    \o LE(Cardinality(dirs), 4) \o ser_dirs(dirs)

\* the reserved stripe ids 0, 1, 2, ... for data.size() bytes of metadata
meta_stripes(size) ==
    [i \in 1..(IF (size + STRIPE_SIZE - 1) \div STRIPE_SIZE = 0 THEN 1
               ELSE (size + STRIPE_SIZE - 1) \div STRIPE_SIZE) |-> i - 1]

\* save_to_backend: [w, ok]
save_to_backend(w, dirs) ==
    Bind(serialize(w.files, dirs), LAMBDA data :
        fm_write([w EXCEPT !.files = MapPut(@, META_PATH,
                                            [size |-> Len(data),
                                             stripes |-> meta_stripes(Len(data))])],
                 META_PATH, 0, data))

\* the stripe-id loop of load_from_backend: [ok, p, stripes]
parse_stripes(data, p, count, stripes) ==
    IF p + (8 * count) > Len(data) + 1 THEN [ok |-> FALSE, p |-> p, stripes |-> stripes]
    ELSE [ok |-> TRUE, p |-> p + (8 * count),
          stripes |-> stripes \o [j \in 1..count |-> read_uint(data, p + (8 * (j - 1)), 8)]]

\* one file entry whose path starts at p1 and ends before p2
RECURSIVE parse_files(_, _, _, _)
parse_file(data, p, p1, p2, count, tbl) ==
    IF p2 > Len(data) + 1 \/ p2 + 8 > Len(data) + 1 \/ p2 + 12 > Len(data) + 1
    THEN [ok |-> FALSE, p |-> p, files |-> tbl]
    ELSE Bind(parse_stripes(data, p2 + 12, read_uint(data, p2 + 8, 4), <<>>),
              LAMBDA st :
                  IF ~st.ok THEN [ok |-> FALSE, p |-> p, files |-> tbl]
                  ELSE parse_files(data, st.p, count - 1,
                                   MapPut(tbl, SubSeq(data, p1, p2 - 1),
                                          [size |-> read_uint(data, p2, 8),
                                           stripes |-> st.stripes])))

\* the file loop: [ok, p, files]; entries read before a failure stay
parse_files(data, p, count, tbl) ==
    IF count = 0 THEN [ok |-> TRUE, p |-> p, files |-> tbl]
    ELSE IF p + 4 > Len(data) + 1 THEN [ok |-> FALSE, p |-> p, files |-> tbl]
    ELSE parse_file(data, p, p + 4, p + 4 + read_uint(data, p, 4), count, tbl)

\* the directory loop: [ok, dirs]
RECURSIVE parse_dirs(_, _, _, _)
parse_dirs(data, p, count, dirs) ==
    IF count = 0 THEN [ok |-> TRUE, dirs |-> dirs]
    ELSE IF p + 4 > Len(data) + 1 THEN [ok |-> FALSE, dirs |-> dirs]
    ELSE LET path_len == read_uint(data, p, 4)
             p1 == p + 4
         IN IF p1 + path_len > Len(data) + 1 THEN [ok |-> FALSE, dirs |-> dirs]
            ELSE parse_dirs(data, p1 + path_len, count - 1,
                            dirs \cup {SubSeq(data, p1, p1 + path_len - 1)})

\* the parsing part of load_from_backend: [ok, files, dirs]
parse_meta(data) ==
    IF 5 > Len(data) + 1 THEN [ok |-> FALSE, files |-> EmptyMap, dirs |-> {}]
    ELSE Bind(parse_files(data, 5, read_uint(data, 1, 4), EmptyMap), LAMBDA f :
             IF ~f.ok \/ f.p + 4 > Len(data) + 1
             THEN [ok |-> FALSE, files |-> f.files, dirs |-> {}]
             ELSE Bind(parse_dirs(data, f.p + 4, read_uint(data, f.p, 4), {}),
                       LAMBDA d : [ok |-> d.ok, files |-> f.files, dirs |-> d.dirs]))

\* load_from_backend after the read of the metadata file
load_parsed(r) ==
    IF ~r.ok \/ r.out = <<>>
    THEN [w |-> [r.w EXCEPT !.files = EmptyMap], dirs |-> {}, ok |-> FALSE]
    ELSE Bind(parse_meta(r.out), LAMBDA t :
             [w |-> [r.w EXCEPT !.files = t.files], dirs |-> t.dirs, ok |-> t.ok])

\* load_from_backend: [w, dirs, ok]
load_from_backend(w, dirs) ==
    load_parsed(fm_read([w EXCEPT !.files =
                             MapPut(@, META_PATH,
                                    [size |-> MAX_META_SIZE, stripes |-> <<0>>])],
                        META_PATH, 0, MAX_META_SIZE))

(***************************************************************************)
(* Process start (main): fresh caches and stripe counter, load the         *)
(* metadata, save an empty table if loading failed, then move              *)
(* next_stripe_id past every stripe id found in the table.                 *)
(***************************************************************************)
\* the largest element of a non-empty stripe list
MaxOf(st) == st[CHOOSE i \in 1..Len(st) : \A j \in 1..Len(st) : st[j] <= st[i]]

RECURSIVE max_stripe_scan(_, _, _)
max_stripe_scan(tbl, paths, acc) ==
    IF paths = {} THEN acc
    ELSE Bind(CHOOSE x \in paths : TRUE, LAMBDA path :
             max_stripe_scan(tbl, paths \ {path},
                             IF tbl[path].stripes # <<>> /\ MaxOf(tbl[path].stripes) >= acc
                             THEN MaxOf(tbl[path].stripes) + 1 ELSE acc))

\* main after load_from_backend returned l: [w, dirs]
mount_loaded(l) ==
    Bind(IF l.ok THEN l.w ELSE save_to_backend(l.w, l.dirs).w, LAMBDA w :
        [w |-> [w EXCEPT !.next_stripe_id =
                    IF max_stripe_scan(w.files, DOMAIN w.files, NEXT_STRIPE_ID_INIT) > @
                    THEN max_stripe_scan(w.files, DOMAIN w.files, NEXT_STRIPE_ID_INIT)
                    ELSE @],
         dirs |-> l.dirs])

\* [w, dirs]
mount(b, t) ==
    mount_loaded(load_from_backend(
        [backends |-> b, repairs |-> {}, next_stripe_id |-> NEXT_STRIPE_ID_INIT,
         files |-> EmptyMap, chunk_cache |-> EmptyCache, file_cache |-> EmptyCache,
         now |-> t], {}))

(***************************************************************************)
(* The objects of the running process as one record, and back.             *)
(***************************************************************************)
World ==
    [backends |-> backends, repairs |-> repairs, next_stripe_id |-> next_stripe_id,
     files |-> files, chunk_cache |-> chunk_cache, file_cache |-> file_cache,
     now |-> now]

SetWorld(w) ==
    /\ backends' = w.backends
    /\ repairs' = w.repairs
    /\ next_stripe_id' = w.next_stripe_id
    /\ files' = w.files
    /\ chunk_cache' = w.chunk_cache
    /\ file_cache' = w.file_cache
    /\ now' = w.now

\* a completed call and what it returned
Call(op, path, offset, size, data, ok, out, flag) ==
    [op |-> op, path |-> path, offset |-> offset, size |-> size, data |-> data,
     ok |-> ok, out |-> out, flag |-> flag]

\* the history keeps the last call, and the one before it if that was a write
Push(h, e) == IF h # <<>> /\ h[Len(h)].op = "write" THEN <<h[Len(h)], e>> ELSE <<e>>

Last(h) == h[Len(h)]

(***************************************************************************)
(* Values of the variables a specification does not use.                   *)
(***************************************************************************)
CodecIdle ==
    /\ c_pc = "idle" /\ c_data = <<>> /\ c_chunks = <<>> /\ c_erased = {}
    /\ c_res = DecodeFail

StoreIdle == backends = <<>> /\ repairs = {} /\ next_stripe_id = NEXT_STRIPE_ID_INIT

FsIdle ==
    /\ files = EmptyMap /\ directories = {}
    /\ chunk_cache = EmptyCache /\ file_cache = EmptyCache
    /\ now = 0 /\ mounted = FALSE

HistIdle ==
    /\ hist = <<>> /\ stored = EmptyMap /\ healing = {} /\ saved = EmptyMap
    /\ written = {} /\ steps = 0

\* no call of async_write_stripe is under way
NoWriter == [pc |-> "idle"]

\* no request thread runs a call
NoThreads == <<>>

UpIdle ==
    /\ spool = EmptyMap /\ queue = <<>> /\ pending_stripes = EmptyMap
    /\ running = FALSE /\ workers = <<>> /\ flush_pc = "idle"
    /\ gave_up = {} /\ rejects = 0 /\ clean = FALSE /\ crashes = 0
    /\ writer = NoWriter /\ threads = NoThreads

(***************************************************************************)
(* Codec harness: encode a plaintext, empty some chunks (a missing chunk   *)
(* is the empty string, erasure_coder.h), decode.                          *)
(***************************************************************************)
CodecInit ==
    /\ k_ \in 1..MaxK
    /\ m_ \in 1..MaxM
    /\ c_data \in SeqsUpTo(ByteVals, MaxLen)
    /\ c_pc = "start"
    /\ c_chunks = <<>>
    /\ c_erased = {}
    /\ c_res = DecodeFail
    /\ StoreIdle /\ FsIdle /\ HistIdle /\ UpIdle

CodecEncode ==
    /\ c_pc = "start"
    /\ c_chunks' = encode(c_data, k_, m_)
    /\ c_pc' = "encoded"
    /\ UNCHANGED <<upVars, k_, m_, c_data, c_erased, c_res>>
    /\ UNCHANGED <<storeVars, fsVars, histVars, upVars>>

CodecErase(i) ==
    /\ c_pc = "encoded"
    /\ i \notin c_erased
    /\ c_chunks' = [c_chunks EXCEPT ![i] = <<>>]
    /\ c_erased' = c_erased \cup {i}
    /\ UNCHANGED <<upVars, k_, m_, c_pc, c_data, c_res>>
    /\ UNCHANGED <<storeVars, fsVars, histVars, upVars>>

CodecDecode ==
    /\ c_pc = "encoded"
    /\ c_res' = decode(c_chunks, k_, m_)
    /\ c_pc' = "decoded"
    /\ UNCHANGED <<upVars, k_, m_, c_data, c_chunks, c_erased>>
    /\ UNCHANGED <<storeVars, fsVars, histVars, upVars>>

CodecNext ==
    \/ CodecEncode
    \/ \E i \in 0..(k_ + m_ - 1) : CodecErase(i)
    \/ CodecDecode

vars == <<k_, m_, codecVars, storeVars, fsVars, histVars, upVars>>

Init == CodecInit

Next == CodecNext

Spec == Init /\ [][Next]_vars

(***************************************************************************)
(* C1: codec round trip.  For every k, m and plaintext d, decode applied   *)
(* to the k+m chunks returned by encode(d, k, m), none of them emptied,    *)
(* succeeds and returns exactly d.                                         *)
(***************************************************************************)
C1_RoundTrip ==
    (c_pc = "decoded" /\ c_erased = {}) => (c_res.ok /\ c_res.data = c_data)

(***************************************************************************)
(* C2: m-failure tolerance.  For every set F of at most m chunk indices    *)
(* (chunk 0 included), decode of encode(d, k, m) with the chunks in F      *)
(* emptied succeeds and returns exactly d.                                 *)
(***************************************************************************)
C2_ErasureTolerance ==
    (c_pc = "decoded" /\ c_erased # {} /\ Cardinality(c_erased) <= m_)
        => (c_res.ok /\ c_res.data = c_data)

(***************************************************************************)
(* Stripe store harness: callers write and read whole stripes through      *)
(* RAIDChunkStore (as the test program does), shard files disappear from   *)
(* backends, and repair threads run at their own pace.                     *)
(***************************************************************************)
MaxStripes == 1

MaxRepairs == 2

MaxRaidSteps == 5

RaidStripes == 1..MaxStripes

\* plaintexts of every length up to MaxLen, and a second one of length MaxLen
Filled(n, v) == [i \in 1..n |-> ((i + v) % MaxByte) + 1]

RaidPlain == {Filled(n, 0) : n \in 0..MaxLen} \cup {Filled(MaxLen, 1)}

NoBackends == [i \in Shards |-> EmptyMap]

RaidInit ==
    /\ k_ \in 1..MaxK
    /\ m_ \in 1..MaxM
    /\ backends = NoBackends
    /\ repairs = {}
    /\ next_stripe_id = NEXT_STRIPE_ID_INIT
    /\ HistIdle /\ CodecIdle /\ FsIdle /\ UpIdle

Absent(s) == {i \in Shards : s \notin DOMAIN backends[i]}

\* RAIDChunkStore::write_chunk
RaidWriteChunk(s, d) ==
    /\ steps < MaxRaidSteps
    /\ steps' = steps + 1
    /\ backends' = raid_write_chunk(backends, s, d)
    /\ stored' = MapPut(stored, s, d)
    /\ healing' = healing \ {s}
    /\ written' = written \cup {s}
    /\ hist' = <<Call("write_chunk", <<>>, s, Len(d), d, TRUE, <<>>, FALSE)>>
    /\ UNCHANGED <<upVars, k_, m_, codecVars, repairs, next_stripe_id, fsVars, saved>>

\* RAIDChunkStore::read_chunk, up to the detach of the repair thread
RaidReadChunk(s) ==
    /\ steps < MaxRaidSteps
    /\ steps' = steps + 1
    /\ Cardinality(repairs) < MaxRepairs
    /\ \E r \in {raid_read_chunk(backends, s)} :
           /\ repairs' = spawn_repair(repairs, r)
           /\ hist' = <<Call("read_chunk", <<>>, s, 0, <<>>, r.ok, r.data, FALSE)>>
    /\ healing' = IF s \in DOMAIN stored /\ Absent(s) # {}
                     /\ Cardinality(Absent(s)) <= m_
                  THEN healing \cup {s} ELSE healing
    /\ UNCHANGED <<upVars, k_, m_, codecVars, backends, next_stripe_id, fsVars, stored, saved,
                   written>>

\* one backend write of a repair thread (repair_missing_chunks)
RepairWrite(task, i) ==
    /\ task \in repairs
    /\ i \in task.todo
    /\ backends' = repair_write(backends, task, i)
    /\ repairs' = (repairs \ {task}) \cup
                  (IF task.todo = {i} THEN {} ELSE {[task EXCEPT !.todo = @ \ {i}]})
    /\ UNCHANGED <<upVars, k_, m_, codecVars, next_stripe_id, fsVars, histVars>>

\* the environment removes shard i of stripe s from its backend
ShardLost(i, s) ==
    /\ s \in DOMAIN backends[i]
    /\ backends' = [backends EXCEPT ![i] = MapDrop(@, s)]
    /\ healing' = healing \ {s}
    /\ UNCHANGED <<upVars, k_, m_, codecVars, repairs, next_stripe_id, fsVars, stored, saved,
                   written>>

RaidLoseShard(i, s) ==
    /\ steps < MaxRaidSteps
    /\ steps' = steps + 1
    /\ ShardLost(i, s)
    /\ UNCHANGED hist

RaidNext ==
    \/ \E s \in RaidStripes, d \in RaidPlain : RaidWriteChunk(s, d)
    \/ \E s \in RaidStripes : RaidReadChunk(s)
    \/ \E task \in repairs, i \in Shards : RepairWrite(task, i)
    \/ \E i \in Shards, s \in RaidStripes : RaidLoseShard(i, s)

SpecRaid == RaidInit /\ [][RaidNext]_vars

(***************************************************************************)
(* C5: repair after a read.  For a stripe with between 1 and m shards      *)
(* absent, once a read_chunk of the stripe has returned and no repair      *)
(* thread for the stripe is left running (and the stripe was neither       *)
(* rewritten nor damaged again meanwhile), every one of the k+m backends   *)
(* holds the shard a fresh encode of the stripe's plaintext gives.         *)
(***************************************************************************)
C5_RepairRestores ==
    \A s \in healing :
        (\A task \in repairs : task.stripe_id # s)
            => \A i \in Shards :
                   /\ s \in DOMAIN backends[i]
                   /\ backends[i][s] = encode(stored[s], k_, m_)[i]

(***************************************************************************)
(* File layer harness: the adaptor's create, write, read and truncate      *)
(* handlers drive FileManager on a mounted file system; shard files        *)
(* disappear from backends, time passes, repair threads run.               *)
(***************************************************************************)
MaxFsK == 2

MaxFsM == 1

MaxFsSteps == 5

MaxNow == 2

PathA == <<47, 97>>

FsPaths == {PathA}

FsOffsets == {0, STRIPE_SIZE - 1}

FsData == {Filled(1, 0), Filled(2, 0)}

FsSizes == {0, STRIPE_SIZE + 1}

\* the state main leaves when it starts on the given backends
Mounted(b) ==
    \E mt \in {mount(b, now)} :
        /\ backends = mt.w.backends
        /\ repairs = mt.w.repairs
        /\ next_stripe_id = mt.w.next_stripe_id
        /\ files = mt.w.files
        /\ chunk_cache = mt.w.chunk_cache
        /\ file_cache = mt.w.file_cache
        /\ directories = mt.dirs

FsInit ==
    /\ k_ \in 1..MaxFsK
    /\ m_ \in 1..MaxFsM
    /\ now = 0
    /\ Mounted(NoBackends)
    /\ mounted = TRUE
    /\ HistIdle /\ CodecIdle /\ UpIdle

StripesOf(b) == UNION {DOMAIN b[i] : i \in Shards}

\* raidfs_create
FsCreate(path) ==
    /\ mounted /\ steps < MaxFsSteps
    /\ path # META_PATH
    /\ path \notin directories
    /\ files' = create_file(files, path)
    /\ hist' = Push(hist, Call("create", path, 0, 0, <<>>, TRUE, <<>>, FALSE))
    /\ steps' = steps + 1
    /\ UNCHANGED <<upVars, k_, m_, codecVars, storeVars, directories, chunk_cache, file_cache,
                   now, mounted, stored, healing, saved, written>>

\* raidfs_write: FileManager::write
FsWrite(path, offset, data) ==
    /\ mounted /\ steps < MaxFsSteps
    /\ path # META_PATH
    /\ exists(files, path)
    /\ \E r \in {fm_write(World, path, offset, data)} :
           /\ SetWorld(r.w)
           /\ written' = written \cup StripesOf(r.w.backends)
           /\ hist' = Push(hist, Call("write", path, offset, Len(data), data, r.ok,
                                      <<>>, FALSE))
    /\ steps' = steps + 1
    /\ UNCHANGED <<upVars, k_, m_, codecVars, directories, mounted, stored, healing, saved>>

\* the read range touches a written stripe that has fewer than k shards
\* left and that no cache holds
Starved(path, offset, size) ==
    /\ ~cache_get(file_cache, path, now, FileCfg).hit
    /\ \E idx \in 1..Len(get_stripes(files, path)) :
           /\ (idx - 1) * STRIPE_SIZE < Min(offset + size, get_size(files, path))
           /\ idx * STRIPE_SIZE > offset
           /\ get_stripes(files, path)[idx] \in written
           /\ Cardinality(raid_present(backends, get_stripes(files, path)[idx])) < k_
           /\ ~cache_get(chunk_cache, get_stripes(files, path)[idx], now, ChunkCfg).hit

\* raidfs_read: FileManager::read
FsRead(path, offset, size) ==
    /\ mounted /\ steps < MaxFsSteps
    /\ path # META_PATH
    /\ exists(files, path)
    /\ \E r \in {fm_read(World, path, offset, size)} :
           /\ SetWorld(r.w)
           /\ hist' = Push(hist, Call("read", path, offset, size, <<>>, r.ok, r.out,
                                      Starved(path, offset, size)))
    /\ steps' = steps + 1
    /\ UNCHANGED <<upVars, k_, m_, codecVars, directories, mounted, stored, healing, saved,
                   written>>

\* raidfs_truncate: FileManager::truncate
FsTruncate(path, size) ==
    /\ mounted /\ steps < MaxFsSteps
    /\ path # META_PATH
    /\ exists(files, path)
    /\ \E r \in {fm_truncate(World, path, size)} :
           /\ SetWorld(r.w)
           /\ hist' = Push(hist, Call("truncate", path, 0, size, <<>>, r.ok, <<>>, FALSE))
    /\ steps' = steps + 1
    /\ UNCHANGED <<upVars, k_, m_, codecVars, directories, mounted, stored, healing, saved,
                   written>>

FsLoseShard(i, s) ==
    /\ steps < MaxFsSteps
    /\ steps' = steps + 1
    /\ ShardLost(i, s)
    /\ hist' = Push(hist, Call("lose", <<>>, s, i, <<>>, TRUE, <<>>, FALSE))

\* a second passes
Tick ==
    /\ now < MaxNow
    /\ now' = now + 1
    /\ hist' = Push(hist, Call("tick", <<>>, 0, 0, <<>>, TRUE, <<>>, FALSE))
    /\ UNCHANGED <<upVars, k_, m_, codecVars, storeVars, files, directories, chunk_cache,
                   file_cache, mounted, stored, healing, saved, written, steps>>

FsNext ==
    \/ \E path \in FsPaths : FsCreate(path)
    \/ \E path \in FsPaths, offset \in FsOffsets, data \in FsData :
           FsWrite(path, offset, data)
    \/ \E path \in FsPaths, offset \in FsOffsets, size \in 1..2 :
           FsRead(path, offset, size)
    \/ \E path \in FsPaths, size \in FsSizes : FsTruncate(path, size)
    \/ \E i \in Shards, s \in StripesOf(backends) : FsLoseShard(i, s)
    \/ \E task \in repairs, i \in Shards : RepairWrite(task, i)
    \/ Tick

SpecFS == FsInit /\ [][FsNext]_vars

(***************************************************************************)
(* C3: read your write.  When FileManager::write(path, offset, data) has   *)
(* returned success and the next call is read(path, offset, |data|), the   *)
(* read succeeds and returns exactly data.                                 *)
(***************************************************************************)
C3_ReadAfterWrite ==
    (/\ Len(hist) = 2
     /\ hist[1].op = "write" /\ hist[1].ok
     /\ hist[2].op = "read"
     /\ hist[2].path = hist[1].path
     /\ hist[2].offset = hist[1].offset
     /\ hist[2].size = hist[1].size)
        => (hist[2].ok /\ hist[2].out = hist[1].data)

(***************************************************************************)
(* C4: no substituted bytes.  A FileManager::read whose range lies in a    *)
(* stripe that was written and now has fewer than k readable shards (and   *)
(* is held by no cache) does not return success.                           *)
(***************************************************************************)
C4_StarvedReadFails ==
    (hist # <<>> /\ Last(hist).op = "read" /\ Last(hist).flag) => ~Last(hist).ok

(***************************************************************************)
(* AsyncUploader (async_uploader.cpp, chunk-level version).  The spool is  *)
(* the cache directory: a map from file name to file content.  A file name *)
(* is kept as the stripe id and the digits printed for the chunk index.    *)
(***************************************************************************)
max_retries == 3

max_queue_size == 3

worker_threads == 2

\* "%02d" of the chunk index
chunk_digits(i) ==
    IF i < 100 THEN <<i \div 10, i % 10>> ELSE <<i \div 100, (i \div 10) % 10, i % 10>>

get_chunk_cache_path(stripe_id, chunk_index) ==
    [stripe |-> stripe_id, chunk |-> chunk_digits(chunk_index)]

\* a ChunkUploadTask as constructed by emplace
ChunkUploadTask(stripe_id, chunk_index, path) ==
    [stripe_id |-> stripe_id, chunk_index |-> chunk_index, local_cache_path |-> path,
     retry_count |-> 0]

NoTask == ChunkUploadTask(0, 0, get_chunk_cache_path(0, 0))

\* load_chunk_from_cache: [ok, data]
load_chunk_from_cache(sp, path) ==
    IF path \in DOMAIN sp THEN [ok |-> TRUE, data |-> sp[path]]
    ELSE [ok |-> FALSE, data |-> <<>>]

remove_cache(sp, path) == MapDrop(sp, path)

\* step 2 of async_write_stripe: every chunk saved under its name
save_chunks_to_cache(sp, stripe_id, chunks) ==
    [p \in (DOMAIN sp) \cup {get_chunk_cache_path(stripe_id, i) : i \in Shards} |->
        IF \E i \in Shards : p = get_chunk_cache_path(stripe_id, i)
        THEN chunks[CHOOSE i \in Shards : p = get_chunk_cache_path(stripe_id, i)]
        ELSE sp[p]]

\* step 4 of async_write_stripe: one task per chunk, in index order
enqueue_chunks(q, stripe_id) ==
    q \o [j \in 1..(k_ + m_) |->
            ChunkUploadTask(stripe_id, j - 1, get_chunk_cache_path(stripe_id, j - 1))]

\* async_write_stripe on u = [spool, queue, pending_stripes]: the same with ok
async_write_stripe(u, stripe_id, data) ==
    IF Len(u.queue) >= max_queue_size
    THEN [ok |-> FALSE, spool |-> u.spool, queue |-> u.queue,
          pending_stripes |-> u.pending_stripes]
    ELSE [ok |-> TRUE,
          spool |-> save_chunks_to_cache(u.spool, stripe_id, encode(data, k_, m_)),
          queue |-> enqueue_chunks(u.queue, stripe_id),
          pending_stripes |-> MapPut(u.pending_stripes, stripe_id, k_ + m_)]

\* mark_chunk_done: [pending_stripes, done]
mark_chunk_done(p, stripe_id) ==
    IF stripe_id \notin DOMAIN p THEN [pending_stripes |-> p, done |-> TRUE]
    ELSE IF p[stripe_id] - 1 <= 0
         THEN [pending_stripes |-> MapDrop(p, stripe_id), done |-> TRUE]
         ELSE [pending_stripes |-> MapPut(p, stripe_id, p[stripe_id] - 1),
               done |-> FALSE]

\* read_from_cache: [ok, data]; a file that cannot be loaded leaves ""
read_from_cache(sp, stripe_id) ==
    IF Cardinality({i \in Shards :
                       load_chunk_from_cache(sp, get_chunk_cache_path(stripe_id, i)).ok})
       < k_
    THEN DecodeFail
    ELSE decode([i \in Shards |->
                    load_chunk_from_cache(sp, get_chunk_cache_path(stripe_id, i)).data],
                k_, m_)

is_pending(p, stripe_id) == stripe_id \in DOMAIN p

\* std::stoi of the two characters after "_chunk_"
parse_chunk_index(path) == (10 * path.chunk[1]) + path.chunk[2]

\* the files found by recover_pending_uploads, as tasks in name order
RECURSIVE recover_tasks(_)
recover_tasks(paths) ==
    IF paths = {} THEN <<>>
    ELSE Bind(CHOOSE p \in paths :
                  \A o \in paths : \/ p.stripe < o.stripe
                                   \/ /\ p.stripe = o.stripe
                                      /\ parse_chunk_index(p) <= parse_chunk_index(o),
              LAMBDA p : <<ChunkUploadTask(p.stripe, parse_chunk_index(p), p)>>
                         \o recover_tasks(paths \ {p}))

\* recover_pending_uploads that marks every stripe found with k+m chunks
recover_pending_uploads_full(sp) ==
    [queue |-> recover_tasks(DOMAIN sp),
     pending_stripes |-> [s \in {p.stripe : p \in DOMAIN sp} |-> k_ + m_]]

\* recover_pending_uploads on an empty uploader: [queue, pending_stripes]
recover_pending_uploads(sp) ==
    [queue |-> recover_tasks(DOMAIN sp),
     pending_stripes |->
         [s \in {p.stripe : p \in DOMAIN sp} |->
             Cardinality({p \in DOMAIN sp : p.stripe = s})]]

\* process_task: [ok, data] with data the bytes handed to the backend
process_task(sp, task) ==
    IF ~load_chunk_from_cache(sp, task.local_cache_path).ok
    THEN [ok |-> FALSE, data |-> <<>>]
    ELSE IF task.chunk_index < 0 \/ task.chunk_index >= k_ + m_
         THEN [ok |-> FALSE, data |-> <<>>]
         ELSE [ok |-> TRUE, data |-> load_chunk_from_cache(sp, task.local_cache_path).data]

(***************************************************************************)
(* Uploader harness: a caller writes stripes through async_write_stripe,   *)
(* worker threads run worker_func one step at a time, a thread calls       *)
(* flush, stripes are read back, and the process may crash and be started  *)
(* again (constructor, recover_pending_uploads, start).                    *)
(***************************************************************************)
MaxUpK == 2

MaxUpM == 1

MaxWrites == 2

MaxCrashes == 1

MaxRejects == 1

\* the payload of the n-th write: successive writes differ
UpData(n) == {Filled(1, n)}

\* shards plus worker threads of the configurations explored
MaxUpSize == 4

\* the worker pool: worker_threads threads, fewer when there are more shards
Workers == 1..Min(worker_threads, MaxUpSize - (k_ + m_))

\* a worker blocked in queue_cv_.wait
IdleWorker == [pc |-> "wait", task |-> NoTask, data |-> <<>>]

UpInit ==
    /\ k_ \in 1..MaxUpK
    /\ m_ \in 1..MaxUpM
    /\ backends = NoBackends
    /\ repairs = {}
    /\ next_stripe_id = NEXT_STRIPE_ID_INIT
    /\ spool = EmptyMap /\ queue = <<>> /\ pending_stripes = EmptyMap
    /\ running = TRUE
    /\ workers = [w \in Workers |-> IdleWorker]
    /\ flush_pc = "idle"
    /\ gave_up = {} /\ rejects = 0 /\ clean = FALSE /\ crashes = 0
    /\ writer = NoWriter /\ threads = NoThreads
    /\ HistIdle /\ CodecIdle /\ FsIdle

\* flush holds queue_mutex_ from the end of its first wait until it returns
QueueMutexFree == flush_pc # "pending"

\* a shard task of stripe s is queued or held by a worker that has not yet
\* counted it, or the stripe is in pending_stripes_
Incomplete(s) ==
    \/ is_pending(pending_stripes, s)
    \/ \E j \in 1..Len(queue) : queue[j].stripe_id = s
    \/ \E w \in Workers : /\ workers[w].pc \in {"process", "uploaded", "failed"}
                          /\ workers[w].task.stripe_id = s

UpAsyncWrite(s, d) ==
    /\ running /\ QueueMutexFree
    /\ steps < MaxWrites
    /\ steps' = steps + 1
    /\ \E r \in {async_write_stripe([spool |-> spool, queue |-> queue,
                                     pending_stripes |-> pending_stripes], s, d)} :
           /\ spool' = r.spool
           /\ queue' = r.queue
           /\ pending_stripes' = r.pending_stripes
           /\ stored' = IF r.ok THEN MapPut(stored, s, d) ELSE stored
    /\ clean' = FALSE
    /\ UNCHANGED <<k_, m_, codecVars, storeVars, fsVars, hist, healing, saved, written,
                   running, workers, flush_pc, gave_up, rejects, crashes, writer, threads>>

\* worker_func: a task is taken from the queue
WorkerPop(w) ==
    /\ running /\ QueueMutexFree
    /\ workers[w].pc = "wait"
    /\ queue # <<>>
    /\ workers' = [workers EXCEPT ![w] = [pc |-> "process", task |-> Head(queue),
                                          data |-> <<>>]]
    /\ queue' = Tail(queue)
    /\ UNCHANGED <<k_, m_, codecVars, storeVars, fsVars, histVars, spool,
                   pending_stripes, running, flush_pc, gave_up, rejects, clean, crashes,
                   writer, threads>>

\* process_task: the spool file is loaded and written to its backend, which
\* may refuse
WorkerProcess(w, accept) ==
    /\ running
    /\ workers[w].pc = "process"
    /\ accept \/ rejects < MaxRejects
    /\ \E r \in {process_task(spool, workers[w].task)} :
           IF r.ok /\ accept
           THEN /\ backends' = [backends EXCEPT ![workers[w].task.chunk_index] =
                                    MapPut(@, workers[w].task.stripe_id, r.data)]
                /\ workers' = [workers EXCEPT ![w].pc = "uploaded"]
                /\ UNCHANGED <<rejects, clean>>
           ELSE /\ workers' = [workers EXCEPT ![w].pc = "failed"]
                /\ rejects' = IF r.ok THEN rejects + 1 ELSE rejects
                /\ clean' = (clean /\ ~r.ok)
                /\ UNCHANGED backends
    /\ UNCHANGED <<k_, m_, codecVars, repairs, next_stripe_id, fsVars, histVars, spool,
                   queue, pending_stripes, running, flush_pc, gave_up, crashes, writer, threads>>

\* worker_func after a successful upload: mark_chunk_done
WorkerMark(w) ==
    /\ running
    /\ workers[w].pc = "uploaded"
    /\ pending_stripes' =
           mark_chunk_done(pending_stripes, workers[w].task.stripe_id).pending_stripes
    /\ workers' = [workers EXCEPT ![w].pc = "remove"]
    /\ UNCHANGED <<k_, m_, codecVars, storeVars, fsVars, histVars, spool, queue,
                   running, flush_pc, gave_up, rejects, clean, crashes, writer, threads>>

\* worker_func after mark_chunk_done: remove_cache, back to the wait
WorkerRemove(w) ==
    /\ running
    /\ workers[w].pc = "remove"
    /\ spool' = remove_cache(spool, workers[w].task.local_cache_path)
    /\ workers' = [workers EXCEPT ![w] = IdleWorker]
    /\ UNCHANGED <<k_, m_, codecVars, storeVars, fsVars, histVars, queue,
                   pending_stripes, running, flush_pc, gave_up, rejects, clean, crashes,
                   writer, threads>>

\* worker_func after a failed upload with retries left: the task is queued
\* again
WorkerRetry(w) ==
    /\ running /\ QueueMutexFree
    /\ workers[w].pc = "failed"
    /\ workers[w].task.retry_count + 1 < max_retries
    /\ queue' = Append(queue, [workers[w].task EXCEPT !.retry_count = @ + 1])
    /\ workers' = [workers EXCEPT ![w] = IdleWorker]
    /\ UNCHANGED <<k_, m_, codecVars, storeVars, fsVars, histVars, spool,
                   pending_stripes, running, flush_pc, gave_up, rejects, clean, crashes,
                   writer, threads>>

\* worker_func after the last failed attempt: counted as failed, the spool
\* file stays
WorkerGiveUp(w) ==
    /\ running
    /\ workers[w].pc = "failed"
    /\ workers[w].task.retry_count + 1 >= max_retries
    /\ gave_up' = gave_up \cup {<<workers[w].task.stripe_id, workers[w].task.chunk_index>>}
    /\ pending_stripes' =
           mark_chunk_done(pending_stripes, workers[w].task.stripe_id).pending_stripes
    /\ workers' = [workers EXCEPT ![w] = IdleWorker]
    /\ UNCHANGED <<k_, m_, codecVars, storeVars, fsVars, histVars, spool, queue,
                   running, flush_pc, rejects, clean, crashes, writer, threads>>

\* flush is called and waits on drain_cv_
FlushBegin ==
    /\ running
    /\ flush_pc \in {"idle", "returned"}
    /\ flush_pc' = "drain"
    /\ UNCHANGED <<k_, m_, codecVars, storeVars, fsVars, histVars, spool, queue,
                   pending_stripes, running, workers, gave_up, rejects, clean, crashes,
                   writer, threads>>

\* flush finds the queue empty and goes on to wait on pending_cv_
FlushDrained ==
    /\ running
    /\ flush_pc = "drain"
    /\ queue = <<>>
    /\ flush_pc' = "pending"
    /\ UNCHANGED <<k_, m_, codecVars, storeVars, fsVars, histVars, spool, queue,
                   pending_stripes, running, workers, gave_up, rejects, clean, crashes,
                   writer, threads>>

\* flush finds pending_stripes_ empty and returns
FlushReturn ==
    /\ running
    /\ flush_pc = "pending"
    /\ pending_stripes = EmptyMap
    /\ flush_pc' = "returned"
    /\ UNCHANGED <<k_, m_, codecVars, storeVars, fsVars, histVars, spool, queue,
                   pending_stripes, running, workers, gave_up, rejects, clean, crashes,
                   writer, threads>>

\* a read of stripe s that misses the stripe cache: from the spool while
\* the stripe is pending, from the backends otherwise; [ok, data, spawn, repair]
read_stripe_pending(sp, p, b, stripe_id) ==
    IF is_pending(p, stripe_id)
    THEN Bind(read_from_cache(sp, stripe_id), LAMBDA d :
             [ReadFail(stripe_id) EXCEPT !.ok = d.ok, !.data = d.data])
    ELSE raid_read_chunk(b, stripe_id)

UpRead(s) ==
    /\ running
    /\ s \in DOMAIN stored
    /\ Incomplete(s)
    /\ Cardinality(repairs) < MaxRepairs
    /\ \E r \in {read_stripe_pending(spool, pending_stripes, backends, s)} :
           /\ repairs' = spawn_repair(repairs, r)
           /\ hist' = <<Call("read", <<>>, s, 0, stored[s], r.ok, r.data, Incomplete(s))>>
    /\ UNCHANGED <<upVars, k_, m_, codecVars, backends, next_stripe_id, fsVars, stored,
                   healing, saved, written, steps>>

\* raidfs_fsync: returns 0 at once (the call of flush is commented out)
UpFsync ==
    /\ running
    /\ hist # <<[op |-> "fsync"]>>
    /\ hist' = <<[op |-> "fsync"]>>
    /\ UNCHANGED <<upVars, k_, m_, codecVars, storeVars, fsVars, stored, healing, saved,
                   written, steps>>

\* the process dies: memory is lost, the spool and the backends stay
UpCrash ==
    /\ running
    /\ crashes < MaxCrashes
    /\ crashes' = crashes + 1
    /\ running' = FALSE
    /\ queue' = <<>>
    /\ pending_stripes' = EmptyMap
    /\ workers' = [w \in Workers |-> IdleWorker]
    /\ flush_pc' = "idle"
    /\ repairs' = {}
    /\ clean' = FALSE
    /\ UNCHANGED <<k_, m_, codecVars, backends, next_stripe_id, fsVars, histVars, spool,
                   gave_up, rejects, writer, threads>>

\* the process is started again: recover_pending_uploads, then start
UpRestart ==
    /\ ~running
    /\ crashes > 0
    /\ running' = TRUE
    /\ queue' = recover_pending_uploads(spool).queue
    /\ pending_stripes' = recover_pending_uploads(spool).pending_stripes
    /\ clean' = TRUE
    /\ UNCHANGED <<k_, m_, codecVars, storeVars, fsVars, histVars, spool, workers,
                   flush_pc, gave_up, rejects, crashes, writer, threads>>

UpNext ==
    \/ \E s \in RaidStripes, d \in UpData(steps) : UpAsyncWrite(s, d)
    \/ \E w \in Workers : WorkerPop(w)
    \/ \E w \in Workers, accept \in BOOLEAN : WorkerProcess(w, accept)
    \/ \E w \in Workers : WorkerMark(w)
    \/ \E w \in Workers : WorkerRemove(w)
    \/ \E w \in Workers : WorkerRetry(w)
    \/ \E w \in Workers : WorkerGiveUp(w)
    \/ FlushBegin
    \/ FlushDrained
    \/ FlushReturn
    \/ \E s \in RaidStripes : UpRead(s)
    \/ UpFsync
    \/ \E task \in repairs, i \in Shards : RepairWrite(task, i)
    \/ UpCrash
    \/ UpRestart

SpecUp == UpInit /\ [][UpNext]_vars

\* every backend holds its shard of the plaintext last written to each stripe
AllDurable ==
    \A s \in DOMAIN stored : \A i \in Shards :
        /\ s \in DOMAIN backends[i]
        /\ backends[i][s] = encode(stored[s], k_, m_)[i]

(***************************************************************************)
(* C6: after async_write_stripe(s, d) returned true, whatever the point at *)
(* which the process crashed, once it has been started again              *)
(* (recover_pending_uploads, start) with backends that accept every write, *)
(* a flush that returns leaves every backend i holding shard i of          *)
(* encode(d).                                                              *)
(***************************************************************************)
C6_AsyncDurability ==
    [][(flush_pc = "pending" /\ flush_pc' = "returned" /\ clean) => AllDurable']_vars

(***************************************************************************)
(* C7: from async_write_stripe(s, d) returning true until all shard        *)
(* uploads of s have completed, a read of stripe s that misses the stripe  *)
(* cache (from the spool while s is pending, from the backends otherwise)  *)
(* returns d.                                                              *)
(***************************************************************************)
C7_ReadYourWrites ==
    (hist # <<>> /\ Last(hist).op = "read" /\ Last(hist).flag)
        => (Last(hist).ok /\ Last(hist).out = Last(hist).data)

(***************************************************************************)
(* C8: when flush returns the queue is empty, pending_stripes_ is empty,   *)
(* no worker holds a shard task it has not yet counted, and every shard of *)
(* a stripe given to a successful async_write_stripe is on its backend or  *)
(* was counted as a permanent failure.                                     *)
(***************************************************************************)
C8_FlushQuiescent ==
    [][(flush_pc = "pending" /\ flush_pc' = "returned")
           => /\ queue' = <<>>
              /\ pending_stripes' = EmptyMap
              /\ \A w \in Workers : workers'[w].pc \notin {"process", "uploaded", "failed"}
              /\ \A s \in DOMAIN stored' : \A i \in Shards :
                     s \in DOMAIN backends'[i] \/ <<s, i>> \in gave_up']_vars

(***************************************************************************)
(* Metadata harness: files and directories are created and written, the    *)
(* file system is unmounted (raidfs_destroy saves the metadata) and        *)
(* started again (main loads it into a fresh MetadataManager).             *)
(***************************************************************************)
\* path ends right before a '/' of other
IsParentOf(path, other) ==
    /\ Len(other) > Len(path)
    /\ SubSeq(other, 1, Len(path)) = path
    /\ other[Len(path) + 1] = 47

\* MetadataManager::is_dir
is_dir(tbl, dirs, path) ==
    \/ path = <<47>>
    \/ path \in dirs
    \/ /\ ~exists(tbl, path)
       /\ \E other \in (DOMAIN tbl) \cup dirs : IsParentOf(path, other)

\* the position of the last '/' of a path, counted from 0
last_slash(path) == CHOOSE i \in 0..(Len(path) - 1) :
                        /\ path[i + 1] = 47
                        /\ \A j \in (i + 1)..(Len(path) - 1) : path[j + 1] # 47

\* MetadataManager::create_dir: [dirs, ok]
create_dir(tbl, dirs, path) ==
    IF path = <<>> \/ path = <<47>> \/ exists(tbl, path) \/ path \in dirs
    THEN [dirs |-> dirs, ok |-> FALSE]
    ELSE IF /\ last_slash(path) > 0
            /\ ~is_dir(tbl, dirs, SubSeq(path, 1, last_slash(path)))
         THEN [dirs |-> dirs, ok |-> FALSE]
         ELSE [dirs |-> dirs \cup {path}, ok |-> TRUE]

MaxMetaK == 1

MaxMetaM == 1

PathD == <<47, 100>>

MetaDirs == {PathD}

\* enough stripes for a table that serialises to more than
\* NEXT_STRIPE_ID_INIT stripes
FarStripes == ((NEXT_STRIPE_ID_INIT * STRIPE_SIZE) \div 8) + 1

MetaOffsets == {0, 5 * STRIPE_SIZE, FarStripes * STRIPE_SIZE}

\* the tables without the entry of the metadata file itself
UserTables(tbl, dirs) == [files |-> [p \in UserPaths(tbl) |-> tbl[p]], dirs |-> dirs]

MetaInit ==
    /\ k_ \in 1..MaxMetaK
    /\ m_ \in 1..MaxMetaM
    /\ now = 0
    /\ Mounted(NoBackends)
    /\ mounted = TRUE
    /\ HistIdle /\ CodecIdle /\ UpIdle

\* raidfs_mkdir
MetaMkdir(path) ==
    /\ mounted /\ steps < MaxFsSteps
    /\ path # META_PATH
    /\ ~exists(files, path)
    /\ ~is_dir(files, directories, path)
    /\ directories' = create_dir(files, directories, path).dirs
    /\ hist' = <<Call("mkdir", path, 0, 0, <<>>, create_dir(files, directories, path).ok,
                      <<>>, FALSE)>>
    /\ steps' = steps + 1
    /\ UNCHANGED <<upVars, k_, m_, codecVars, storeVars, files, chunk_cache, file_cache,
                   now, mounted, stored, healing, saved, written>>

\* raidfs_destroy: the metadata is saved and the process ends
MetaDestroy ==
    /\ mounted /\ steps < MaxFsSteps
    /\ \E r \in {save_to_backend(World, directories)} : SetWorld(r.w)
    /\ saved' = UserTables(files, directories)
    /\ mounted' = FALSE
    /\ hist' = <<Call("destroy", <<>>, 0, 0, <<>>, TRUE, <<>>, FALSE)>>
    /\ steps' = steps + 1
    /\ UNCHANGED <<upVars, k_, m_, codecVars, directories, stored, healing, written>>

\* main: a new process with fresh objects loads the metadata
MetaMount ==
    /\ ~mounted /\ steps < MaxFsSteps
    /\ \E mt \in {mount(backends, now)} :
           /\ SetWorld(mt.w)
           /\ directories' = mt.dirs
    /\ mounted' = TRUE
    /\ hist' = <<Call("mount", <<>>, 0, 0, <<>>, TRUE, <<>>, FALSE)>>
    /\ steps' = steps + 1
    /\ UNCHANGED <<upVars, k_, m_, codecVars, stored, healing, saved, written>>

MetaNext ==
    \/ \E path \in FsPaths : FsCreate(path)
    \/ \E path \in MetaDirs : MetaMkdir(path)
    \/ \E path \in FsPaths, offset \in MetaOffsets, data \in FsData :
           FsWrite(path, offset, data)
    \/ MetaDestroy
    \/ MetaMount

SpecMeta == MetaInit /\ [][MetaNext]_vars

(***************************************************************************)
(* C9: metadata round trip.  After save_to_backend at unmount and          *)
(* load_from_backend into the fresh MetadataManager of the next start, the *)
(* tables (files with size and stripe list, directories) are those that    *)
(* were saved, also when the serialised metadata is longer than a stripe.  *)
(***************************************************************************)
C9_MetaRoundTrip ==
    (hist # <<>> /\ Last(hist).op = "mount")
        => UserTables(files, directories) = saved

(***************************************************************************)
(* C10: reserved stripe ids.  The stripe ids of the metadata file are all  *)
(* below 100, next_stripe_id never is, and no stripe id is held both by    *)
(* the metadata file and by a user file.                                   *)
(***************************************************************************)
C10_ReservedStripes ==
    /\ next_stripe_id >= NEXT_STRIPE_ID_INIT
    /\ \A j \in 1..Len(get_stripes(files, META_PATH)) :
           /\ get_stripes(files, META_PATH)[j] < NEXT_STRIPE_ID_INIT
           /\ \A p \in UserPaths(files) : \A i \in 1..Len(files[p].stripes) :
                  files[p].stripes[i] # get_stripes(files, META_PATH)[j]

(***************************************************************************)
(* Shard harness: callers write, read and delete whole stripes through     *)
(* RAIDChunkStore while the environment damages the backends: a shard file *)
(* disappears, some of its bytes change (its length stays), or a backend   *)
(* read fails with an I/O error although the shard is there.  A ChunkStore *)
(* read returns a bool, so the two kinds of failure look the same to       *)
(* read_chunk: the reads of the backends in io see no shard.               *)
(***************************************************************************)
MaxShK == 2

MaxShM == 2

MaxShSteps == 4

ShPlain == {Filled(n, 0) : n \in 0..2}

\* the backends as the reads of one read_chunk see them
io_masked(b, io) == [i \in Shards |-> IF i \in io THEN EmptyMap ELSE b[i]]

\* LocalChunkStore::delete_chunk on every backend: unlink(path) == 0
raid_delete_results(b, stripe_id) == [i \in Shards |-> stripe_id \in DOMAIN b[i]]

\* RAIDChunkStore::delete_chunk: [b, ok].  The threads store their results
\* into one std::vector<bool> without a lock; raced tells whether one of the
\* stores was lost.
raid_delete_chunk(b, stripe_id, raced) ==
    [b |-> [i \in Shards |-> MapDrop(b[i], stripe_id)],
     ok |-> (\A i \in Shards : raid_delete_results(b, stripe_id)[i]) /\ ~raced]

\* shards of stripe s whose bytes differ from the encoding of the plaintext
\* written last, with the length unchanged and not zero
Altered(s) ==
    {i \in Shards \ Absent(s) :
        /\ backends[i][s] # encode(stored[s], k_, m_)[i]
        /\ backends[i][s] # <<>>
        /\ Len(backends[i][s]) = Len(encode(stored[s], k_, m_)[i])}

Intact(s) == {i \in Shards \ Absent(s) : backends[i][s] = encode(stored[s], k_, m_)[i]}

ShInit ==
    /\ k_ \in 1..MaxShK
    /\ m_ \in 1..MaxShM
    /\ backends = NoBackends
    /\ repairs = {}
    /\ next_stripe_id = NEXT_STRIPE_ID_INIT
    /\ HistIdle /\ CodecIdle /\ FsIdle /\ UpIdle

\* RAIDChunkStore::write_chunk
ShWriteChunk(s, d) ==
    /\ steps < MaxShSteps
    /\ steps' = steps + 1
    /\ backends' = raid_write_chunk(backends, s, d)
    /\ stored' = MapPut(stored, s, d)
    /\ hist' = <<[op |-> "write_chunk", stripe |-> s]>>
    /\ UNCHANGED <<upVars, k_, m_, codecVars, repairs, next_stripe_id, fsVars, healing,
                   saved, written>>

\* RAIDChunkStore::read_chunk while the reads of the backends in io fail
\* with an I/O error; the repair thread remembers io
ShReadChunk(s, io) ==
    /\ steps < MaxShSteps
    /\ steps' = steps + 1
    /\ s \in DOMAIN stored
    /\ Cardinality(repairs) < MaxRepairs
    /\ \E r \in {raid_read_chunk(io_masked(backends, io), s)} :
           /\ repairs' = IF r.spawn /\ r.repair.todo # {}
                         THEN repairs \cup {[stripe_id |-> s, todo |-> r.repair.todo,
                                             data |-> r.repair.data, io |-> io]}
                         ELSE repairs
           /\ hist' = <<[op |-> "read_chunk", stripe |-> s, io |-> io,
                         ok |-> r.ok, out |-> r.data, plain |-> stored[s],
                         readable |-> raid_present(io_masked(backends, io), s),
                         decoded |-> decode(raid_fetch(io_masked(backends, io), s),
                                            k_, m_).ok,
                         absent |-> Absent(s), altered |-> Altered(s),
                         intact |-> Intact(s)]>>
    /\ UNCHANGED <<upVars, k_, m_, codecVars, backends, next_stripe_id, fsVars, stored,
                   healing, saved, written>>

\* RAIDChunkStore::delete_chunk
ShDeleteChunk(s, raced) ==
    /\ steps < MaxShSteps
    /\ steps' = steps + 1
    /\ \E r \in {raid_delete_chunk(backends, s, raced)} :
           /\ backends' = r.b
           /\ hist' = <<[op |-> "delete_chunk", stripe |-> s, ok |-> r.ok,
                         raced |-> raced, absent |-> Absent(s)]>>
    /\ stored' = MapDrop(stored, s)
    /\ UNCHANGED <<upVars, k_, m_, codecVars, repairs, next_stripe_id, fsVars, healing,
                   saved, written>>

\* the environment changes the first or the last byte of shard i of stripe s
ShCorrupt(i, s, last) ==
    /\ steps < MaxShSteps
    /\ steps' = steps + 1
    /\ s \in DOMAIN backends[i]
    /\ backends[i][s] # <<>>
    /\ backends' = [backends EXCEPT ![i][s] =
                       [@ EXCEPT ![IF last THEN Len(@) ELSE 1] = (@ + 1) % 256]]
    /\ hist' = <<[op |-> "corrupt", stripe |-> s]>>
    /\ UNCHANGED <<upVars, k_, m_, codecVars, repairs, next_stripe_id, fsVars, stored,
                   healing, saved, written>>

\* the environment removes shard i of stripe s from its backend
ShLoseShard(i, s) ==
    /\ steps < MaxShSteps
    /\ steps' = steps + 1
    /\ ShardLost(i, s)
    /\ hist' = <<[op |-> "lose", stripe |-> s]>>

ShNext ==
    \/ \E s \in RaidStripes, d \in ShPlain : ShWriteChunk(s, d)
    \/ \E s \in RaidStripes, io \in SUBSET Shards : ShReadChunk(s, io)
    \/ \E s \in RaidStripes, raced \in BOOLEAN : ShDeleteChunk(s, raced)
    \/ \E i \in Shards, s \in RaidStripes, last \in BOOLEAN : ShCorrupt(i, s, last)
    \/ \E i \in Shards, s \in RaidStripes : ShLoseShard(i, s)
    \/ \E task \in repairs, i \in Shards : RepairWrite(task, i)

SpecSh == ShInit /\ [][ShNext]_vars

(***************************************************************************)
(* C11: corrupt shards.  A read_chunk of a stripe in which at most m       *)
(* shards have altered bytes (not empty, of the original length), every    *)
(* other shard being intact and every backend read succeeding, returns the *)
(* plaintext that was written: it does not return success with other      *)
(* bytes.                                                                  *)
(***************************************************************************)
C11_CorruptShardsRecovered ==
    (/\ hist # <<>> /\ Last(hist).op = "read_chunk"
     /\ Last(hist).io = {}
     /\ Last(hist).altered # {}
     /\ Cardinality(Last(hist).altered) <= m_
     /\ Last(hist).altered \cup Last(hist).intact = Shards)
        => (Last(hist).ok /\ Last(hist).out = Last(hist).plain)

(***************************************************************************)
(* C12: rejection beyond m failures.  Whenever fewer than k shards of a    *)
(* stripe are non-empty, RSCoder::decode of the stripe's shards fails, and *)
(* a read_chunk in which fewer than k backend reads succeeded returns      *)
(* failure.                                                                *)
(***************************************************************************)
C12_TooFewShardsRejected ==
    (/\ hist # <<>> /\ Last(hist).op = "read_chunk"
     /\ Cardinality(Last(hist).readable) < k_)
        => (~Last(hist).decoded /\ ~Last(hist).ok)

\* a read_chunk of a stripe that has lost more than m shards, not all, was made
C12_Witness ==
    /\ hist # <<>> /\ Last(hist).op = "read_chunk"
    /\ Cardinality(Last(hist).readable) < k_
    /\ Last(hist).readable # {}
    /\ Cardinality(Last(hist).absent) > m_

(***************************************************************************)
(* C19: delete of absent shards.  RAIDChunkStore::delete_chunk returns     *)
(* success when every backend deleted its shard or did not have it, so a   *)
(* delete of a stripe some or all of whose shards are absent succeeds.     *)
(***************************************************************************)
C19_DeleteAbsentSucceeds ==
    (hist # <<>> /\ Last(hist).op = "delete_chunk") => Last(hist).ok

(***************************************************************************)
(* C20: no repair after an I/O error.  A read_chunk during which the read  *)
(* of backend i failed with an I/O error leaves no repair write to backend *)
(* i to be done.                                                           *)
(***************************************************************************)
C20_NoRepairAfterIOError ==
    \A task \in repairs : "io" \in DOMAIN task => task.todo \cap task.io = {}

(***************************************************************************)
(* Content harness: the adaptor's create, write, read, truncate and unlink *)
(* handlers drive FileManager, the file system is unmounted and started    *)
(* again.  stored[path] remembers which byte positions of the file were    *)
(* written since it was created (written) and which were cut off by a      *)
(* truncate and not written again since (cut).                             *)
(***************************************************************************)
MaxCtK == 1

MaxCtM == 1

MaxCtSteps == 8

CtOffsets == {0, 1, STRIPE_SIZE}

CtData == {Filled(1, 0)}

CtSizes == {0, 1, 2}

CtReads == {<<0, 2>>, <<1, 1>>, <<STRIPE_SIZE, 1>>}

NoMarks == [written |-> {}, cut |-> {}]

CtInit ==
    /\ k_ \in 1..MaxCtK
    /\ m_ \in 1..MaxCtM
    /\ now = 0
    /\ Mounted(NoBackends)
    /\ mounted = TRUE
    /\ HistIdle /\ CodecIdle /\ UpIdle

\* raidfs_create
CtCreate(path) ==
    /\ mounted /\ steps < MaxCtSteps
    /\ path # META_PATH
    /\ ~is_dir(files, directories, path)
    /\ files' = create_file(files, path)
    /\ stored' = IF exists(files, path) THEN stored ELSE MapPut(stored, path, NoMarks)
    /\ hist' = <<Call("create", path, 0, 0, <<>>, TRUE, <<>>, FALSE)>>
    /\ steps' = steps + 1
    /\ UNCHANGED <<upVars, k_, m_, codecVars, storeVars, directories, chunk_cache, file_cache,
                   now, mounted, healing, saved, written>>

\* raidfs_unlink
CtUnlink(path) ==
    /\ mounted /\ steps < MaxCtSteps
    /\ path # META_PATH
    /\ exists(files, path)
    /\ files' = remove_file(files, path)
    /\ stored' = MapDrop(stored, path)
    /\ hist' = <<Call("unlink", path, 0, 0, <<>>, TRUE, <<>>, FALSE)>>
    /\ steps' = steps + 1
    /\ UNCHANGED <<upVars, k_, m_, codecVars, storeVars, directories, chunk_cache, file_cache,
                   now, mounted, healing, saved, written>>

\* raidfs_write: FileManager::write
CtWrite(path, offset, data) ==
    /\ mounted /\ steps < MaxCtSteps
    /\ path # META_PATH
    /\ exists(files, path)
    /\ \E r \in {fm_write(World, path, offset, data)} :
           /\ SetWorld(r.w)
           /\ hist' = <<Call("write", path, offset, Len(data), data, r.ok, <<>>, FALSE)>>
    /\ stored' = [stored EXCEPT
                      ![path].written = @ \cup (offset..(offset + Len(data) - 1)),
                      ![path].cut = @ \ (offset..(offset + Len(data) - 1))]
    /\ steps' = steps + 1
    /\ UNCHANGED <<upVars, k_, m_, codecVars, directories, mounted, healing, saved,
                   written>>

\* raidfs_truncate: FileManager::truncate
CtTruncate(path, size) ==
    /\ mounted /\ steps < MaxCtSteps
    /\ path # META_PATH
    /\ exists(files, path)
    /\ \E r \in {fm_truncate(World, path, size)} :
           /\ SetWorld(r.w)
           /\ hist' = <<Call("truncate", path, 0, size, <<>>, r.ok, <<>>, FALSE)>>
    /\ stored' = [stored EXCEPT
                      ![path].cut = @ \cup (size..(get_size(files, path) - 1))]
    /\ steps' = steps + 1
    /\ UNCHANGED <<upVars, k_, m_, codecVars, directories, mounted, healing, saved,
                   written>>

\* raidfs_read: FileManager::read
CtRead(path, offset, size) ==
    /\ mounted /\ steps < MaxCtSteps
    /\ path # META_PATH
    /\ exists(files, path)
    /\ \E r \in {fm_read(World, path, offset, size)} :
           /\ SetWorld(r.w)
           /\ hist' = <<Call("read", path, offset, size, <<>>, r.ok, r.out, FALSE)>>
    /\ steps' = steps + 1
    /\ UNCHANGED <<upVars, k_, m_, codecVars, directories, mounted, stored, healing, saved,
                   written>>

\* raidfs_destroy: the metadata is saved and the process ends
CtDestroy ==
    /\ mounted /\ steps < MaxCtSteps
    /\ \E r \in {save_to_backend(World, directories)} : SetWorld(r.w)
    /\ mounted' = FALSE
    /\ hist' = <<Call("destroy", <<>>, 0, 0, <<>>, TRUE, <<>>, FALSE)>>
    /\ steps' = steps + 1
    /\ UNCHANGED <<upVars, k_, m_, codecVars, directories, stored, healing, saved,
                   written>>

\* main: a new process with fresh objects loads the metadata
CtMount ==
    /\ ~mounted /\ steps < MaxCtSteps
    /\ \E mt \in {mount(backends, now)} :
           /\ SetWorld(mt.w)
           /\ directories' = mt.dirs
    /\ mounted' = TRUE
    /\ hist' = <<Call("mount", <<>>, 0, 0, <<>>, TRUE, <<>>, FALSE)>>
    /\ steps' = steps + 1
    /\ UNCHANGED <<upVars, k_, m_, codecVars, stored, healing, saved, written>>

CtNext ==
    \/ \E path \in FsPaths : CtCreate(path)
    \/ \E path \in FsPaths : CtUnlink(path)
    \/ \E path \in FsPaths, offset \in CtOffsets, data \in CtData :
           CtWrite(path, offset, data)
    \/ \E path \in FsPaths, size \in CtSizes : CtTruncate(path, size)
    \/ \E path \in FsPaths, rd \in CtReads : CtRead(path, rd[1], rd[2])
    \/ CtDestroy
    \/ CtMount

SpecCt == CtInit /\ [][CtNext]_vars

(***************************************************************************)
(* C13: length of a read.  FileManager::read(path, offset, length) returns *)
(* exactly min(length, size - offset) bytes when offset < size and no      *)
(* bytes when offset >= size, in every file state create, write and        *)
(* truncate lead to.                                                       *)
(***************************************************************************)
C13_ReadLength ==
    (hist # <<>> /\ Last(hist).op = "read")
        => Len(Last(hist).out) =
               IF Last(hist).offset < get_size(files, Last(hist).path)
               THEN Min(Last(hist).size,
                        get_size(files, Last(hist).path) - Last(hist).offset)
               ELSE 0

(***************************************************************************)
(* C14: unwritten bytes are zero.  After any sequence of create, write,    *)
(* unlink, metadata save and restart, a read returns zero for every byte   *)
(* position that has not been written since the file was created.          *)
(***************************************************************************)
C14_UnwrittenReadsZero ==
    (hist # <<>> /\ Last(hist).op = "read")
        => \A j \in 1..Len(Last(hist).out) :
               (Last(hist).offset + (j - 1)) \notin stored[Last(hist).path].written
                   => Last(hist).out[j] = 0

(***************************************************************************)
(* C15: truncated bytes stay gone.  After truncate(path, n) below the      *)
(* current size, once the file has been extended again, a read returns     *)
(* zero for every byte position of [n, old size) that was not written      *)
(* again.                                                                  *)
(***************************************************************************)
C15_TruncatedReadsZero ==
    (hist # <<>> /\ Last(hist).op = "read")
        => \A j \in 1..Len(Last(hist).out) :
               (Last(hist).offset + (j - 1)) \in stored[Last(hist).path].cut
                   => Last(hist).out[j] = 0

(***************************************************************************)
(* C16: size within the stripe list.  For every file, size is at most      *)
(* STRIPE_SIZE times the number of stripe ids in its stripe list, after    *)
(* any sequence of create, write and truncate.                             *)
(***************************************************************************)
C16_SizeWithinStripes ==
    \A p \in UserPaths(files) : files[p].size <= STRIPE_SIZE * Len(files[p].stripes)

(***************************************************************************)
(* C17: bounded queue.  The upload queue never holds more than             *)
(* max_queue_size shard tasks, whatever the interleaving of                *)
(* async_write_stripe calls, worker retries and restart recovery.          *)
(***************************************************************************)
C17_QueueBounded == Len(queue) <= max_queue_size

(***************************************************************************)
(* C18: retries.  A worker that leaves a failed upload queues the task     *)
(* again, with its retry_count raised by one, whenever the retry_count the *)
(* task came with is below max_retries, so a task is counted as a          *)
(* permanent failure only at its attempt number max_retries + 1.           *)
(***************************************************************************)
C18_RetriesBeforeGiveUp ==
    [][\A w \in DOMAIN workers :
           (/\ running /\ running'
            /\ workers[w].pc = "failed" /\ workers'[w].pc # "failed"
            /\ workers[w].task.retry_count < max_retries)
               => queue' = Append(queue, [workers[w].task EXCEPT !.retry_count = @ + 1])]_vars


(***************************************************************************)
(* Cache harness: put, get, invalidate and cleanup_expired on a ChunkCache *)
(* (keys are stripe ids) and a FileCache (keys are paths) while time       *)
(* passes.  Every method holds the cache's mutex from its first line to    *)
(* its return, so a call is one step.  hist keeps the last call with the   *)
(* cache as it was before the call; stored keeps, per cache and key, when  *)
(* the key was last put with success or hit by a get.                      *)
(***************************************************************************)
MaxCaSteps == 4

MaxCaNow == 2

CaWhich == {"chunk", "file"}

CaKeys(which) == IF which = "chunk" THEN {1, 2} ELSE {PathA, PathD}

CaData == {Filled(n, 0) : n \in {STRIPE_SIZE \div 2, STRIPE_SIZE, STRIPE_SIZE + 1}}

CacheOf(which) == IF which = "chunk" THEN chunk_cache ELSE file_cache

CfgOf(which) == IF which = "chunk" THEN ChunkCfg ELSE FileCfg

\* cleanup_expired
cache_cleanup_expired(c, t) == cache_purge_expired(c, DOMAIN c.entries, t)

\* a put the cache has room for: not above max_file_size (FileCache) and
\* not above max_cache_size
Accepted(which, data) ==
    /\ Len(data) <= CfgOf(which).max_cache_size
    /\ CfgOf(which).by_size => Len(data) <= CfgOf(which).max_file_size

\* cleanup_expired is not about one key
NoKey(which) == IF which = "chunk" THEN 0 ELSE <<>>

NoTouch == [chunk |-> EmptyMap, file |-> EmptyMap]

CaInit ==
    /\ k_ = 1 /\ m_ = 1
    /\ files = EmptyMap /\ directories = {}
    /\ chunk_cache = EmptyCache /\ file_cache = EmptyCache
    /\ now = 0 /\ mounted = TRUE
    /\ hist = <<>> /\ stored = NoTouch /\ healing = {} /\ saved = EmptyMap
    /\ written = {} /\ steps = 0
    /\ CodecIdle /\ StoreIdle /\ UpIdle

CaSet(which, c) ==
    /\ chunk_cache' = IF which = "chunk" THEN c ELSE chunk_cache
    /\ file_cache' = IF which = "file" THEN c ELSE file_cache

CaCall(op, which, key, data, hit, out) ==
    [op |-> op, which |-> which, key |-> key, data |-> data, t |-> now, hit |-> hit,
     out |-> out, before |-> CacheOf(which),
     touch |-> IF key \in DOMAIN stored[which] THEN stored[which][key] ELSE -1]

CaPut(which, key, data) ==
    /\ steps < MaxCaSteps
    /\ steps' = steps + 1
    /\ CaSet(which, cache_put(CacheOf(which), key, data, now, CfgOf(which)))
    /\ stored' = IF Accepted(which, data)
                 THEN [stored EXCEPT ![which] = MapPut(@, key, now)] ELSE stored
    /\ hist' = <<CaCall("put", which, key, data, FALSE, <<>>)>>
    /\ UNCHANGED <<upVars, k_, m_, codecVars, storeVars, files, directories, now, mounted,
                   healing, saved, written>>

CaGet(which, key) ==
    /\ steps < MaxCaSteps
    /\ steps' = steps + 1
    /\ \E r \in {cache_get(CacheOf(which), key, now, CfgOf(which))} :
           /\ CaSet(which, r.cache)
           /\ stored' = IF r.hit THEN [stored EXCEPT ![which] = MapPut(@, key, now)]
                        ELSE stored
           /\ hist' = <<CaCall("get", which, key, <<>>, r.hit, r.data)>>
    /\ UNCHANGED <<upVars, k_, m_, codecVars, storeVars, files, directories, now, mounted,
                   healing, saved, written>>

CaInvalidate(which, key) ==
    /\ steps < MaxCaSteps
    /\ steps' = steps + 1
    /\ CaSet(which, cache_invalidate(CacheOf(which), key))
    /\ hist' = <<CaCall("invalidate", which, key, <<>>, FALSE, <<>>)>>
    /\ UNCHANGED <<upVars, k_, m_, codecVars, storeVars, files, directories, now, mounted,
                   stored, healing, saved, written>>

CaCleanup(which) ==
    /\ steps < MaxCaSteps
    /\ steps' = steps + 1
    /\ CaSet(which, cache_cleanup_expired(CacheOf(which), now))
    /\ hist' = <<CaCall("cleanup_expired", which, NoKey(which), <<>>, FALSE, <<>>)>>
    /\ UNCHANGED <<upVars, k_, m_, codecVars, storeVars, files, directories, now, mounted,
                   stored, healing, saved, written>>

\* a second passes
CaTick ==
    /\ now < MaxCaNow
    /\ now' = now + 1
    /\ UNCHANGED <<upVars, k_, m_, codecVars, storeVars, files, directories, chunk_cache,
                   file_cache, mounted, histVars>>

CaNext ==
    \/ \E which \in CaWhich : \E key \in CaKeys(which), data \in CaData :
           CaPut(which, key, data)
    \/ \E which \in CaWhich : \E key \in CaKeys(which) : CaGet(which, key)
    \/ \E which \in CaWhich : \E key \in CaKeys(which) : CaInvalidate(which, key)
    \/ \E which \in CaWhich : CaCleanup(which)
    \/ CaTick

SpecCa == CaInit /\ [][CaNext]_vars

\* total size of the resident entries
RECURSIVE SumSizes(_, _)
SumSizes(c, keys) ==
    IF keys = {} THEN 0
    ELSE Bind(CHOOSE x \in keys : TRUE, LAMBDA x :
             Len(c.entries[x].data) + SumSizes(c, keys \ {x}))

\* why the entry of key x, resident before the call e, may be gone after it
Gone(e, x, cfg) ==
    \/ e.op \in {"put", "invalidate"} /\ x = e.key
    \/ e.t > e.before.entries[x].expire_time
    \/ /\ e.op = "put" /\ Accepted(e.which, e.data)
       /\ SumSizes(e.before,
                   {y \in DOMAIN e.before.entries \ {e.key} :
                       e.t <= e.before.entries[y].expire_time})
              + Len(e.data) > cfg.max_cache_size

C22_ExpiredGetMisses ==
    (hist # <<>> /\ hist[1].op = "get" /\ hist[1].key \in DOMAIN hist[1].before.entries)
        => LET e == hist[1]
               late == e.t - e.touch > CfgOf(e.which).ttl
           IN /\ late => (/\ ~e.hit /\ e.out = <<>>
                          /\ e.key \notin DOMAIN CacheOf(e.which).entries)
              /\ e.hit => ~late

\* a get has just found an entry that was put or hit more than ttl ago
C22_Witness ==
    /\ hist # <<>>
    /\ hist[1].op = "get"
    /\ hist[1].key \in DOMAIN hist[1].before.entries
    /\ hist[1].touch >= 0
    /\ hist[1].t - hist[1].touch > CfgOf(hist[1].which).ttl
    /\ hist[1].before.entries[hist[1].key].data # <<>>

(***************************************************************************)
(* Rename harness: files and directories are created, files get a size and *)
(* stripes, directories are removed, and paths are renamed through         *)
(* raidfs_rename.  PathTrie holds the paths of the file table and of the   *)
(* directory set, one node per path component, so list_dir(path) is not    *)
(* empty exactly when some file or directory lies under path.  A rename    *)
(* whose destination lies under its source never reaches the handler (the  *)
(* kernel answers EINVAL).                                                 *)
(***************************************************************************)
\* list_dir(path) is not empty
HasChildren(tbl, dirs, path) == \E other \in (DOMAIN tbl) \cup dirs : IsParentOf(path, other)

\* MetadataManager::is_empty_dir
is_empty_dir(tbl, dirs, path) == is_dir(tbl, dirs, path) /\ ~HasChildren(tbl, dirs, path)

\* MetadataManager::remove_dir: [dirs, ok]
remove_dir(tbl, dirs, path) ==
    IF path = <<>> \/ path = <<47>> \/ path \notin dirs \/ HasChildren(tbl, dirs, path)
    THEN [dirs |-> dirs, ok |-> FALSE]
    ELSE [dirs |-> dirs \ {path}, ok |-> TRUE]

\* new_path + path.substr(old_path.size())
Moved(old_path, new_path, path) == new_path \o SubSeq(path, Len(old_path) + 1, Len(path))

\* rename with files_to_move swapped: every moved file gets the FileMeta of
\* the file table's first entry under old_path
move_files_first(tbl, old_path, new_path, todo, metas) ==
    [p \in ((DOMAIN tbl) \ todo) \cup {Moved(old_path, new_path, q) : q \in todo} |->
        IF \E q \in todo : p = Moved(old_path, new_path, q)
        THEN metas[CHOOSE q \in todo : \A q2 \in todo : Len(metas[q].stripes) >=
                                                             Len(metas[q2].stripes)]
        ELSE tbl[p]]

\* the loop over files_to_move: erase the old path, store the collected
\* FileMeta under the new one
RECURSIVE move_files(_, _, _, _, _)
move_files(tbl, old_path, new_path, todo, metas) ==
    IF todo = {} THEN tbl
    ELSE Bind(CHOOSE p \in todo : TRUE, LAMBDA p :
             move_files(MapPut(MapDrop(tbl, p), Moved(old_path, new_path, p), metas[p]),
                        old_path, new_path, todo \ {p}, metas))

\* the loop over dirs_to_move
move_dirs(dirs, old_path, new_path) ==
    {d \in dirs : ~IsParentOf(old_path, d)}
        \cup {Moved(old_path, new_path, d) : d \in {x \in dirs : IsParentOf(old_path, x)}}

\* the descendants of old_path move to new_path
move_tree(tbl, dirs, old_path, new_path) ==
    [tbl |-> move_files(tbl, old_path, new_path,
                        {p \in DOMAIN tbl : IsParentOf(old_path, p)}, tbl),
     dirs |-> move_dirs(dirs, old_path, new_path)]

\* MetadataManager::rename: [tbl, dirs, ok]
rename(tbl, dirs, old_path, new_path) ==
    IF old_path = <<>> \/ new_path = <<>> \/ old_path = <<47>> \/ new_path = <<47>>
    THEN [tbl |-> tbl, dirs |-> dirs, ok |-> FALSE]
    ELSE IF exists(tbl, new_path) \/ new_path \in dirs
    THEN [tbl |-> tbl, dirs |-> dirs, ok |-> FALSE]
    ELSE IF /\ last_slash(new_path) > 0
            /\ ~is_dir(tbl, dirs, SubSeq(new_path, 1, last_slash(new_path)))
    THEN [tbl |-> tbl, dirs |-> dirs, ok |-> FALSE]
    ELSE IF exists(tbl, old_path)
    THEN [tbl |-> MapPut(MapDrop(tbl, old_path), new_path, tbl[old_path]),
          dirs |-> dirs, ok |-> TRUE]
    ELSE IF old_path \in dirs
    THEN Bind(move_tree(tbl, dirs, old_path, new_path), LAMBDA r :
             [tbl |-> r.tbl, dirs |-> (r.dirs \ {old_path}) \cup {new_path}, ok |-> TRUE])
    ELSE IF HasChildren(tbl, dirs, old_path)
    THEN Bind(move_tree(tbl, dirs, old_path, new_path), LAMBDA r :
             [tbl |-> r.tbl, dirs |-> r.dirs, ok |-> TRUE])
    ELSE [tbl |-> tbl, dirs |-> dirs, ok |-> FALSE]

\* raidfs_rename: [tbl, dirs, err]
raidfs_rename(tbl, dirs, old_path, new_path) ==
    IF old_path = META_PATH \/ new_path = META_PATH
    THEN [tbl |-> tbl, dirs |-> dirs, err |-> "EACCES"]
    ELSE IF ~exists(tbl, new_path) /\ is_dir(tbl, dirs, new_path)
            /\ ~is_empty_dir(tbl, dirs, new_path)
    THEN [tbl |-> tbl, dirs |-> dirs, err |-> "ENOTEMPTY"]
    ELSE Bind(rename(IF exists(tbl, new_path) THEN remove_file(tbl, new_path) ELSE tbl,
                     IF ~exists(tbl, new_path) /\ is_dir(tbl, dirs, new_path)
                     THEN remove_dir(tbl, dirs, new_path).dirs ELSE dirs,
                     old_path, new_path),
              LAMBDA r : [tbl |-> r.tbl, dirs |-> r.dirs,
                          err |-> IF r.ok THEN "OK" ELSE "ENOENT"])

MaxRnSteps == 5

PathE == <<47, 101>>

RnPaths == {PathA, PathD, PathE, PathD \o PathA, PathD \o PathD, PathE \o PathA,
            PathD \o PathD \o PathA}

RnSizes == {1, 2}

RnInit ==
    /\ k_ = 1 /\ m_ = 1
    /\ now = 0
    /\ Mounted(NoBackends)
    /\ mounted = TRUE
    /\ HistIdle /\ CodecIdle /\ UpIdle

\* raidfs_create
RnCreate(path) ==
    /\ steps < MaxRnSteps
    /\ path # META_PATH
    /\ last_slash(path) > 0 => is_dir(files, directories, SubSeq(path, 1, last_slash(path)))
    /\ ~is_dir(files, directories, path)
    /\ files' = create_file(files, path)
    /\ hist' = <<[op |-> "create"]>>
    /\ steps' = steps + 1
    /\ UNCHANGED <<upVars, k_, m_, codecVars, storeVars, directories, chunk_cache, file_cache,
                   now, mounted, stored, healing, saved, written>>

\* raidfs_mkdir
RnMkdir(path) ==
    /\ steps < MaxRnSteps
    /\ path # META_PATH
    /\ ~exists(files, path)
    /\ ~is_dir(files, directories, path)
    /\ directories' = create_dir(files, directories, path).dirs
    /\ hist' = <<[op |-> "mkdir"]>>
    /\ steps' = steps + 1
    /\ UNCHANGED <<upVars, k_, m_, codecVars, storeVars, files, chunk_cache, file_cache,
                   now, mounted, stored, healing, saved, written>>

\* raidfs_write of one byte at the start of the file
RnWrite(path) ==
    /\ steps < MaxRnSteps
    /\ path # META_PATH
    /\ exists(files, path)
    /\ \E r \in {fm_write(World, path, 0, Filled(1, 0))} : SetWorld(r.w)
    /\ hist' = <<[op |-> "write"]>>
    /\ steps' = steps + 1
    /\ UNCHANGED <<upVars, k_, m_, codecVars, directories, mounted, stored, healing, saved,
                   written>>

\* raidfs_truncate
RnTruncate(path, size) ==
    /\ steps < MaxRnSteps
    /\ path # META_PATH
    /\ exists(files, path)
    /\ \E r \in {fm_truncate(World, path, size)} : SetWorld(r.w)
    /\ hist' = <<[op |-> "truncate"]>>
    /\ steps' = steps + 1
    /\ UNCHANGED <<upVars, k_, m_, codecVars, directories, mounted, stored, healing, saved,
                   written>>

\* raidfs_rename
RnRename(from, to) ==
    /\ steps < MaxRnSteps
    /\ ~IsParentOf(from, to)
    /\ \E r \in {raidfs_rename(files, directories, from, to)} :
           /\ files' = r.tbl
           /\ directories' = r.dirs
           /\ hist' = <<[op |-> "rename", from |-> from, to |-> to, err |-> r.err,
                         files |-> files, dirs |-> directories]>>
    /\ steps' = steps + 1
    /\ UNCHANGED <<upVars, k_, m_, codecVars, storeVars, chunk_cache, file_cache,
                   now, mounted, stored, healing, saved, written>>

RnNext ==
    \/ \E path \in RnPaths : RnCreate(path)
    \/ \E path \in RnPaths : RnMkdir(path)
    \/ \E path \in RnPaths : RnWrite(path)
    \/ \E path \in RnPaths, size \in RnSizes : RnTruncate(path, size)
    \/ \E from \in RnPaths, to \in RnPaths : RnRename(from, to)

SpecRn == RnInit /\ [][RnNext]_vars

C24_FailedRenameNoChange ==
    (hist # <<>> /\ hist[1].op = "rename" /\ hist[1].err # "OK")
        => (files = hist[1].files /\ directories = hist[1].dirs)

(***************************************************************************)
(* C25: systematic encoding.  For every plaintext, shard r of encode with  *)
(* r < k (shard 0 without its 8-byte header) equals bytes                   *)
(* [r * shard_size, (r + 1) * shard_size) of the zero-padded plaintext.    *)
(***************************************************************************)
C25_DataShardsRaw ==
    (c_pc = "encoded" /\ c_erased = {})
        => LET shard_size == (Len(c_data) + k_ - 1) \div k_
               padded == PadTo(c_data, shard_size * k_)
           IN \A r \in 0..(k_ - 1) :
                  SubSeq(c_chunks[r], (IF r = 0 THEN HeaderLen ELSE 0) + 1, Len(c_chunks[r]))
                      = SubSeq(padded, (r * shard_size) + 1, (r + 1) * shard_size)

(***************************************************************************)
(* C26: fsync.  When raidfs_fsync returns, no shard task is queued and no  *)
(* stripe is pending.                                                      *)
(***************************************************************************)
C26_FsyncFlushes ==
    [][(hist' # hist /\ hist' = <<[op |-> "fsync"]>>)
           => (queue' = <<>> /\ pending_stripes' = EmptyMap)]_vars

(***************************************************************************)
(* C28: a stripe written twice.  When the process has not crashed, no      *)
(* backend write has failed, the second async_write_stripe(s, d2) has      *)
(* returned true after the first, and the queue and the pending map are    *)
(* empty with every worker back in its wait, every backend i holds shard i *)
(* of encode(d2).                                                          *)
(***************************************************************************)
C28_RewriteConverges ==
    \A s \in DOMAIN stored :
        (/\ running /\ crashes = 0 /\ rejects = 0
         /\ stored[s] \in UpData(1)
         /\ queue = <<>> /\ pending_stripes = EmptyMap
         /\ \A w \in DOMAIN workers : workers[w].pc = "wait")
            => \A i \in Shards :
                   /\ s \in DOMAIN backends[i]
                   /\ backends[i][s] = encode(stored[s], k_, m_)[i]

(***************************************************************************)
(* C29: spool files.  A worker that removes a spool file removes a file    *)
(* whose bytes are the bytes its backend holds for that shard, and the     *)
(* spool file of a task is there when the task is counted as a permanent   *)
(* failure.                                                                *)
(***************************************************************************)
C29_SpoolRemovedAfterUpload ==
    [][\A w \in DOMAIN workers :
           /\ (/\ running /\ running'
               /\ workers[w].pc = "remove" /\ workers'[w].pc # "remove"
               /\ workers[w].task.local_cache_path \in DOMAIN spool)
                  => /\ workers[w].task.stripe_id
                            \in DOMAIN backends[workers[w].task.chunk_index]
                     /\ backends[workers[w].task.chunk_index][workers[w].task.stripe_id]
                            = spool[workers[w].task.local_cache_path]
           /\ (/\ running /\ running'
               /\ workers[w].pc = "failed" /\ workers'[w].pc # "failed"
               /\ gave_up' # gave_up)
                  => workers[w].task.local_cache_path \in DOMAIN spool']_vars

(***************************************************************************)
(* The uploader without crashes and reads, with every thread scheduled     *)
(* again and again: a worker that can take its next step takes it, and so  *)
(* does the thread in flush.  The caller of async_write_stripe stops after *)
(* MaxWrites calls, and a backend call returns in the step that makes it.  *)
(***************************************************************************)
UpLiveNext ==
    \/ \E s \in RaidStripes, d \in UpData(steps) : UpAsyncWrite(s, d)
    \/ \E w \in Workers : WorkerPop(w)
    \/ \E w \in Workers, accept \in BOOLEAN : WorkerProcess(w, accept)
    \/ \E w \in Workers : WorkerMark(w)
    \/ \E w \in Workers : WorkerRemove(w)
    \/ \E w \in Workers : WorkerRetry(w)
    \/ \E w \in Workers : WorkerGiveUp(w)
    \/ FlushBegin
    \/ FlushDrained
    \/ FlushReturn

WorkerStep(w) ==
    /\ w \in Workers
    /\ \/ WorkerPop(w)
       \/ \E accept \in BOOLEAN : WorkerProcess(w, accept)
       \/ WorkerMark(w)
       \/ WorkerRemove(w)
       \/ WorkerRetry(w)
       \/ WorkerGiveUp(w)

SpecUpLive ==
    /\ UpInit
    /\ [][UpLiveNext]_vars
    /\ \A w \in 1..worker_threads : WF_vars(WorkerStep(w))
    /\ WF_vars(FlushDrained)
    /\ WF_vars(FlushReturn)

(***************************************************************************)
(* C27: flush returns.  With the writes bounded and every thread           *)
(* scheduled, a call of flush eventually returns.                          *)
(***************************************************************************)
C27_FlushReturns == (flush_pc = "drain") ~> (flush_pc = "returned")

(***************************************************************************)
(* Spool harness: async_write_stripe one file operation at a time.         *)
(* save_chunk_to_cache opens the file under its final name (std::ofstream  *)
(* creates or empties it), writes through the stream's buffer, which       *)
(* reaches the file in pieces, and the destructor writes the rest.  The    *)
(* files are read by load_chunk_from_cache: by a worker holding a task of  *)
(* that name, and by read_from_cache while the stripe is pending.  The     *)
(* process may crash; recover_pending_uploads then queues a task for every *)
(* file it finds.  stored keeps, per file name, the shards that calls of   *)
(* async_write_stripe were given for it.                                   *)
(***************************************************************************)
MaxSpK == 1

MaxSpM == 1

MaxSpWrites == 2

\* the file the writer is at
writer_path(wr) == get_chunk_cache_path(wr.stripe_id, wr.index)

SpInit ==
    /\ k_ \in 1..MaxSpK
    /\ m_ \in 1..MaxSpM
    /\ backends = NoBackends
    /\ repairs = {}
    /\ next_stripe_id = NEXT_STRIPE_ID_INIT
    /\ spool = EmptyMap /\ queue = <<>> /\ pending_stripes = EmptyMap
    /\ running = TRUE
    /\ workers = [w \in Workers |-> IdleWorker]
    /\ flush_pc = "idle"
    /\ gave_up = {} /\ rejects = 0 /\ clean = FALSE /\ crashes = 0
    /\ writer = NoWriter /\ threads = NoThreads
    /\ HistIdle /\ CodecIdle /\ FsIdle

\* async_write_stripe up to the first save_chunk_to_cache: queue test, encode
SpBegin(s, d) ==
    /\ running
    /\ writer.pc = "idle"
    /\ steps < MaxSpWrites
    /\ steps' = steps + 1
    /\ Len(queue) < max_queue_size
    /\ writer' = [pc |-> "open", stripe_id |-> s, index |-> 0,
                  chunks |-> encode(d, k_, m_)]
    /\ stored' = [p \in (DOMAIN stored) \cup {get_chunk_cache_path(s, i) : i \in Shards} |->
                     (IF p \in DOMAIN stored THEN stored[p] ELSE {})
                         \cup {encode(d, k_, m_)[i] :
                                  i \in {j \in Shards : p = get_chunk_cache_path(s, j)}}]
    /\ UNCHANGED <<k_, m_, codecVars, storeVars, fsVars, hist, healing, saved, written,
                   spool, queue, pending_stripes, running, workers, flush_pc, gave_up,
                   rejects, clean, crashes, threads>>

\* save_chunk_to_cache: std::ofstream file(cache_path, std::ios::binary)
SpOpen ==
    /\ running
    /\ writer.pc = "open"
    /\ spool' = MapPut(spool, writer_path(writer), <<>>)
    /\ writer' = [writer EXCEPT !.pc = "write"]
    /\ UNCHANGED <<k_, m_, codecVars, storeVars, fsVars, histVars, queue, pending_stripes,
                   running, workers, flush_pc, gave_up, rejects, clean, crashes, threads>>

\* save_chunk_to_cache: file.write, the buffer reaches the file up to byte n
SpFlush(n) ==
    /\ running
    /\ writer.pc = "write"
    /\ writer_path(writer) \in DOMAIN spool
    /\ Len(spool[writer_path(writer)]) < n
    /\ n < Len(writer.chunks[writer.index])
    /\ spool' = MapPut(spool, writer_path(writer),
                       SubSeq(writer.chunks[writer.index], 1, n))
    /\ UNCHANGED <<k_, m_, codecVars, storeVars, fsVars, histVars, queue, pending_stripes,
                   running, workers, flush_pc, gave_up, rejects, clean, crashes, writer, threads>>

\* save_chunk_to_cache returns: the file is complete, unless a worker has
\* removed it since it was opened (the bytes then go to a file without a
\* name); after the last file async_write_stripe marks the stripe pending,
\* queues the tasks and returns
SpClose ==
    /\ running
    /\ writer.pc = "write"
    /\ spool' = IF writer_path(writer) \in DOMAIN spool
                THEN MapPut(spool, writer_path(writer), writer.chunks[writer.index])
                ELSE spool
    /\ IF writer.index + 1 < k_ + m_
       THEN /\ writer' = [writer EXCEPT !.pc = "open", !.index = @ + 1]
            /\ UNCHANGED <<queue, pending_stripes>>
       ELSE /\ writer' = NoWriter
            /\ pending_stripes' = MapPut(pending_stripes, writer.stripe_id, k_ + m_)
            /\ queue' = enqueue_chunks(queue, writer.stripe_id)
    /\ UNCHANGED <<k_, m_, codecVars, storeVars, fsVars, histVars, running, workers,
                   flush_pc, gave_up, rejects, clean, crashes, threads>>

\* load_chunk_from_cache of file p by a worker that holds a task of that
\* name, or by read_from_cache while the stripe is pending
SpLoad(p) ==
    /\ running
    /\ \/ \E w \in Workers : workers[w].pc = "process" /\ workers[w].task.local_cache_path = p
       \/ is_pending(pending_stripes, p.stripe)
    /\ hist' = <<[op |-> "load", path |-> p, ok |-> load_chunk_from_cache(spool, p).ok,
                  data |-> load_chunk_from_cache(spool, p).data,
                  writing |-> writer.pc # "idle"]>>
    /\ hist' # hist
    /\ UNCHANGED <<upVars, k_, m_, codecVars, storeVars, fsVars, stored, healing, saved,
                   written, steps>>

\* the process dies: memory is lost, the spool stays as it is
SpCrash ==
    /\ running
    /\ crashes < MaxCrashes
    /\ crashes' = crashes + 1
    /\ running' = FALSE
    /\ queue' = <<>>
    /\ pending_stripes' = EmptyMap
    /\ workers' = [w \in Workers |-> IdleWorker]
    /\ writer' = NoWriter
    /\ UNCHANGED <<k_, m_, codecVars, storeVars, fsVars, histVars, spool, flush_pc,
                   gave_up, rejects, clean, threads>>

\* the process is started again: recover_pending_uploads, then start
SpRestart ==
    /\ ~running
    /\ crashes > 0
    /\ running' = TRUE
    /\ queue' = recover_pending_uploads(spool).queue
    /\ pending_stripes' = recover_pending_uploads(spool).pending_stripes
    /\ UNCHANGED <<k_, m_, codecVars, storeVars, fsVars, histVars, spool, workers,
                   flush_pc, gave_up, rejects, clean, crashes, writer, threads>>

SpNext ==
    \/ \E s \in RaidStripes, d \in UpData(steps) : SpBegin(s, d)
    \/ SpOpen
    \/ \E n \in {1, HeaderLen} : SpFlush(n)
    \/ SpClose
    \/ \E p \in DOMAIN stored : SpLoad(p)
    \/ \E w \in Workers : WorkerPop(w)
    \/ \E w \in Workers, accept \in BOOLEAN : WorkerProcess(w, accept)
    \/ \E w \in Workers : WorkerMark(w)
    \/ \E w \in Workers : WorkerRemove(w)
    \/ \E w \in Workers : WorkerRetry(w)
    \/ \E w \in Workers : WorkerGiveUp(w)
    \/ SpCrash
    \/ SpRestart

SpecSp == SpInit /\ [][SpNext]_vars

(***************************************************************************)
(* C30: spool files appear complete.  A load_chunk_from_cache that finds   *)
(* the file returns the complete bytes of a shard that some call of        *)
(* async_write_stripe saved under that name.                               *)
(***************************************************************************)
C30_SpoolFileComplete ==
    (hist # <<>> /\ hist[1].op = "load" /\ hist[1].ok)
        => hist[1].data \in stored[hist[1].path]
(***************************************************************************)
(* C31: a repair thread writes shard i of stripe s only while backend i    *)
(* still has no shard of s (a read of it gives nothing, as when the read   *)
(* of read_chunk sampled it): every backend write of                       *)
(* repair_missing_chunks finds the shard absent, so that it never replaces *)
(* a shard that a write_chunk of s stored after the read had sampled       *)
(* backend i.                                                              *)
(***************************************************************************)
C31_RepairWritesAbsentOnly ==
    [][\A task \in repairs, i \in Shards :
           RepairWrite(task, i) => i \notin raid_present(backends, task.stripe_id)]_vars

(***************************************************************************)
(* Overlap harness: one caller runs write_chunk, whose k+m backend writes  *)
(* are threads of their own and land one at a time in any order, while     *)
(* another caller runs read_chunk on the same stripe store.  A read_chunk  *)
(* taken between two backend writes sees every combination of shards that  *)
(* its own k+m reader threads can sample during the write.  stored keeps   *)
(* the plaintext of the last write_chunk that returned.                    *)
(***************************************************************************)
MaxOvK == 2

MaxOvM == 1

MaxOvWrites == 2

MaxOvLen == 1

\* the plaintexts written: every byte string of up to MaxOvLen bytes
OvPlain == SeqsUpTo(ByteVals, MaxOvLen)

OvInit ==
    /\ k_ \in 1..MaxOvK
    /\ m_ \in 1..MaxOvM
    /\ backends = NoBackends
    /\ repairs = {}
    /\ next_stripe_id = NEXT_STRIPE_ID_INIT
    /\ HistIdle /\ CodecIdle /\ FsIdle /\ UpIdle

\* write_chunk: encode, then one thread per backend is started
OvWriteBegin(s, d) ==
    /\ writer.pc = "idle"
    /\ steps < MaxOvWrites
    /\ steps' = steps + 1
    /\ writer' = [pc |-> "store", stripe_id |-> s, todo |-> Shards, data |-> d,
                  chunks |-> encode(d, k_, m_)]
    /\ UNCHANGED <<k_, m_, codecVars, storeVars, fsVars, hist, stored, healing, saved,
                   written, spool, queue, pending_stripes, running, workers, flush_pc,
                   gave_up, rejects, clean, crashes, threads>>

\* backends[i]->write_chunk(stripe_id, i, chunks[i]) in thread i
OvStore(i) ==
    /\ writer.pc = "store"
    /\ i \in writer.todo
    /\ backends' = [backends EXCEPT ![i] = MapPut(@, writer.stripe_id, writer.chunks[i])]
    /\ writer' = [writer EXCEPT !.todo = @ \ {i}]
    /\ UNCHANGED <<k_, m_, codecVars, repairs, next_stripe_id, fsVars, histVars, spool,
                   queue, pending_stripes, running, workers, flush_pc, gave_up, rejects,
                   clean, crashes, threads>>

\* write_chunk: the threads are joined, the call returns
OvWriteEnd ==
    /\ writer.pc = "store"
    /\ writer.todo = {}
    /\ stored' = MapPut(stored, writer.stripe_id, writer.data)
    /\ writer' = NoWriter
    /\ UNCHANGED <<k_, m_, codecVars, storeVars, fsVars, hist, healing, saved, written,
                   steps, spool, queue, pending_stripes, running, workers, flush_pc,
                   gave_up, rejects, clean, crashes, threads>>

\* read_chunk up to the detach of the repair thread; overlap tells whether
\* a write_chunk of the stripe is under way, old and new are the
\* plaintexts before and of that write_chunk
OvReadChunk(s) ==
    /\ Cardinality(repairs) < MaxRepairs
    /\ \E r \in {raid_read_chunk(backends, s)} :
           /\ repairs' = spawn_repair(repairs, r)
           /\ hist' = <<[op |-> "read_chunk", stripe |-> s, ok |-> r.ok, out |-> r.data,
                         overlap |-> writer.pc = "store" /\ writer.stripe_id = s
                                        /\ s \in DOMAIN stored,
                         old |-> IF s \in DOMAIN stored THEN stored[s] ELSE <<>>,
                         new |-> IF writer.pc = "store" THEN writer.data ELSE <<>>]>>
    /\ hist' # hist
    /\ UNCHANGED <<upVars, k_, m_, codecVars, backends, next_stripe_id, fsVars, stored,
                   healing, saved, written, steps>>

OvNext ==
    \/ \E s \in RaidStripes, d \in OvPlain : OvWriteBegin(s, d)
    \/ \E i \in Shards : OvStore(i)
    \/ OvWriteEnd
    \/ \E s \in RaidStripes : OvReadChunk(s)
    \/ \E task \in repairs, i \in Shards : RepairWrite(task, i)

SpecOv == OvInit /\ [][OvNext]_vars

(***************************************************************************)
(* C32: a read_chunk of stripe s that runs while a write_chunk(s, new) is  *)
(* under way on a stripe holding old returns old, new or failure: when it  *)
(* succeeds its bytes are those of old or those of new.                    *)
(***************************************************************************)
C32_OverlapReadOldOrNew ==
    (hist # <<>> /\ hist[1].op = "read_chunk" /\ hist[1].overlap /\ hist[1].ok)
        => hist[1].out \in {hist[1].old, hist[1].new}

(***************************************************************************)
(* Partial-write harness: the adaptor creates a file, writes single bytes  *)
(* into its first stripe and reads the file back, while shard files        *)
(* disappear from backends and the clock lets cache entries expire.        *)
(* stored keeps, per path, the bytes the successful writes gave the file   *)
(* (a gap left by a write beyond the end reads as zeros).                  *)
(***************************************************************************)
MaxPwK == 1

MaxPwM == 1

MaxPwSteps == 5

PwOffsets == {0, 1}

PwData == {Filled(1, 0)}

\* the bytes of a file after size bytes of data are written at offset
Written(old, offset, data) ==
    [p \in 1..(IF offset + Len(data) > Len(old) THEN offset + Len(data) ELSE Len(old)) |->
        IF p > offset /\ p <= offset + Len(data) THEN data[p - offset]
        ELSE IF p <= Len(old) THEN old[p] ELSE 0]

PwInit ==
    /\ k_ \in 1..MaxPwK
    /\ m_ \in 1..MaxPwM
    /\ now = 0
    /\ Mounted(NoBackends)
    /\ mounted = TRUE
    /\ HistIdle /\ CodecIdle /\ UpIdle

\* raidfs_create
PwCreate(path) ==
    /\ steps < MaxPwSteps
    /\ ~exists(files, path)
    /\ files' = create_file(files, path)
    /\ stored' = MapPut(stored, path, <<>>)
    /\ hist' = Push(hist, Call("create", path, 0, 0, <<>>, TRUE, <<>>, FALSE))
    /\ steps' = steps + 1
    /\ UNCHANGED <<upVars, k_, m_, codecVars, storeVars, directories, chunk_cache, file_cache,
                   now, mounted, healing, saved, written>>

\* the stripe that holds file position offset has been written, is held by
\* no cache and cannot be read from the backends
Undecodable(path, offset) ==
    /\ (offset \div STRIPE_SIZE) < Len(get_stripes(files, path))
    /\ \E s \in {get_stripes(files, path)[(offset \div STRIPE_SIZE) + 1]} :
           /\ s \in written
           /\ ~cache_get(chunk_cache, s, now, ChunkCfg).hit
           /\ ~raid_read_chunk(backends, s).ok

\* raidfs_write: FileManager::write
PwWrite(path, offset, data) ==
    /\ steps < MaxPwSteps
    /\ exists(files, path)
    /\ \E r \in {fm_write(World, path, offset, data)} :
           /\ SetWorld(r.w)
           /\ written' = written \cup StripesOf(r.w.backends)
           /\ stored' = IF r.ok THEN MapPut(stored, path, Written(stored[path], offset, data))
                        ELSE stored
           /\ hist' = Push(hist, Call("write", path, offset, Len(data), data, r.ok,
                                      <<>>, Undecodable(path, offset)))
    /\ steps' = steps + 1
    /\ UNCHANGED <<upVars, k_, m_, codecVars, directories, mounted, healing, saved>>

\* raidfs_read of the whole file: FileManager::read
PwRead(path) ==
    /\ steps < MaxPwSteps
    /\ exists(files, path)
    /\ \E r \in {fm_read(World, path, 0, get_size(files, path))} :
           /\ SetWorld(r.w)
           /\ hist' = Push(hist, Call("read", path, 0, get_size(files, path), <<>>, r.ok,
                                      r.out, FALSE))
    /\ steps' = steps + 1
    /\ UNCHANGED <<upVars, k_, m_, codecVars, directories, mounted, stored, healing, saved,
                   written>>

PwNext ==
    \/ \E path \in FsPaths : PwCreate(path)
    \/ \E path \in FsPaths, offset \in PwOffsets, data \in PwData : PwWrite(path, offset, data)
    \/ \E path \in FsPaths : PwRead(path)
    \/ \E i \in Shards, s \in StripesOf(backends) : FsLoseShard(i, s)
    \/ \E task \in repairs, i \in Shards : RepairWrite(task, i)
    \/ Tick

SpecPw == PwInit /\ [][PwNext]_vars

(***************************************************************************)
(* C33: a successful write that covers part of a stripe leaves every other *)
(* byte of the file as it was, whatever the backends hold at the time of   *)
(* the write: a read of the whole file that follows the write returns the  *)
(* bytes the successful writes gave the file.                              *)
(***************************************************************************)
C33_PartialWriteKeepsRest ==
    (/\ Len(hist) = 2
     /\ hist[1].op = "write" /\ hist[1].ok
     /\ hist[2].op = "read"
     /\ hist[2].path = hist[1].path)
        => (hist[2].ok /\ hist[2].out = stored[hist[1].path])

(***************************************************************************)
(* Stripe-cache harness: request threads of the adaptor run                *)
(* FileManager::read_stripe and FileManager::write_stripe side by side.    *)
(* FileManager holds no lock, so the calls interleave between their        *)
(* statements: the cache calls (each under the cache's own mutex) and the  *)
(* stripe store calls.  stored keeps, per stripe, the data of the last     *)
(* write_stripe that returned.                                             *)
(***************************************************************************)
MaxScK == 1

MaxScM == 1

MaxScCalls == 3

MaxScThreads == 2

ScThreads == 1..MaxScThreads

ScData == {Filled(STRIPE_SIZE, 0), Filled(STRIPE_SIZE, 1)}

IdleThread == [pc |-> "idle", op |-> "none", stripe_id |-> 0, data |-> <<>>]

ScInit ==
    /\ k_ \in 1..MaxScK
    /\ m_ \in 1..MaxScM
    /\ backends = NoBackends
    /\ repairs = {}
    /\ next_stripe_id = NEXT_STRIPE_ID_INIT
    /\ spool = EmptyMap /\ queue = <<>> /\ pending_stripes = EmptyMap
    /\ running = FALSE /\ workers = <<>> /\ flush_pc = "idle"
    /\ gave_up = {} /\ rejects = 0 /\ clean = FALSE /\ crashes = 0
    /\ writer = NoWriter
    /\ threads = [t \in ScThreads |-> IdleThread]
    /\ HistIdle /\ CodecIdle /\ FsIdle

\* read_stripe: chunk_cache_->get; a hit returns
ScReadGet(t, s) ==
    /\ threads[t].pc = "idle"
    /\ steps < MaxScCalls
    /\ steps' = steps + 1
    /\ \E g \in {cache_get(chunk_cache, s, now, ChunkCfg)} :
           /\ chunk_cache' = g.cache
           /\ threads' = [threads EXCEPT ![t] =
                             IF g.hit THEN IdleThread
                             ELSE [pc |-> "raid", op |-> "read_stripe", stripe_id |-> s,
                                   data |-> <<>>]]
    /\ UNCHANGED <<k_, m_, codecVars, storeVars, files, directories, file_cache, now,
                   mounted, hist, stored, healing, saved, written, spool, queue,
                   pending_stripes, running, workers, flush_pc, gave_up, rejects, clean,
                   crashes, writer>>

\* read_stripe: raid->read_chunk; a failure returns a stripe of zeros
ScReadRaid(t) ==
    /\ threads[t].pc = "raid" /\ threads[t].op = "read_stripe"
    /\ \E r \in {raid_read_chunk(backends, threads[t].stripe_id)} :
           /\ repairs' = spawn_repair(repairs, r)
           /\ threads' = [threads EXCEPT ![t] =
                             IF ~r.ok THEN IdleThread
                             ELSE [@ EXCEPT !.pc = "put",
                                            !.data = PadTo(r.data, STRIPE_SIZE)]]
    /\ UNCHANGED <<k_, m_, codecVars, backends, next_stripe_id, fsVars, histVars, spool,
                   queue, pending_stripes, running, workers, flush_pc, gave_up, rejects,
                   clean, crashes, writer>>

\* read_stripe: chunk_cache_->put(stripe_id, out), return
ScReadPut(t) ==
    /\ threads[t].pc = "put" /\ threads[t].op = "read_stripe"
    /\ chunk_cache' = cache_put(chunk_cache, threads[t].stripe_id, threads[t].data, now,
                                ChunkCfg)
    /\ threads' = [threads EXCEPT ![t] = IdleThread]
    /\ UNCHANGED <<k_, m_, codecVars, storeVars, files, directories, file_cache, now,
                   mounted, histVars, spool, queue, pending_stripes, running, workers,
                   flush_pc, gave_up, rejects, clean, crashes, writer>>

\* write_stripe: chunk_cache_->invalidate(stripe_id)
ScWriteInvalidate(t, s, d) ==
    /\ threads[t].pc = "idle"
    /\ steps < MaxScCalls
    /\ steps' = steps + 1
    /\ chunk_cache' = cache_invalidate(chunk_cache, s)
    /\ threads' = [threads EXCEPT ![t] =
                      [pc |-> "raid", op |-> "write_stripe", stripe_id |-> s, data |-> d]]
    /\ UNCHANGED <<k_, m_, codecVars, storeVars, files, directories, file_cache, now,
                   mounted, hist, stored, healing, saved, written, spool, queue,
                   pending_stripes, running, workers, flush_pc, gave_up, rejects, clean,
                   crashes, writer>>

\* write_stripe: raid->write_chunk(stripe_id, 0, data)
ScWriteRaid(t) ==
    /\ threads[t].pc = "raid" /\ threads[t].op = "write_stripe"
    /\ backends' = raid_write_chunk(backends, threads[t].stripe_id, threads[t].data)
    /\ threads' = [threads EXCEPT ![t].pc = "put"]
    /\ UNCHANGED <<k_, m_, codecVars, repairs, next_stripe_id, fsVars, histVars, spool,
                   queue, pending_stripes, running, workers, flush_pc, gave_up, rejects,
                   clean, crashes, writer>>

\* write_stripe: chunk_cache_->put(stripe_id, data), return
ScWritePut(t) ==
    /\ threads[t].pc = "put" /\ threads[t].op = "write_stripe"
    /\ chunk_cache' = cache_put(chunk_cache, threads[t].stripe_id, threads[t].data, now,
                                ChunkCfg)
    /\ stored' = MapPut(stored, threads[t].stripe_id, threads[t].data)
    /\ threads' = [threads EXCEPT ![t] = IdleThread]
    /\ UNCHANGED <<k_, m_, codecVars, storeVars, files, directories, file_cache, now,
                   mounted, hist, healing, saved, written, steps, spool, queue,
                   pending_stripes, running, workers, flush_pc, gave_up, rejects, clean,
                   crashes, writer>>

ScNext ==
    \/ \E t \in ScThreads, s \in RaidStripes : ScReadGet(t, s)
    \/ \E t \in ScThreads : ScReadRaid(t)
    \/ \E t \in ScThreads : ScReadPut(t)
    \/ \E t \in ScThreads, s \in RaidStripes, d \in ScData : ScWriteInvalidate(t, s, d)
    \/ \E t \in ScThreads : ScWriteRaid(t)
    \/ \E t \in ScThreads : ScWritePut(t)
    \/ Tick

SpecSc == ScInit /\ [][ScNext]_vars

\* some thread is inside write_stripe on stripe s
Writing(s) ==
    \E t \in ScThreads : threads[t].op = "write_stripe" /\ threads[t].stripe_id = s

(***************************************************************************)
(* C34: from the return of write_stripe(s, d) until the next write_stripe  *)
(* of s begins, the stripe cache has no entry for s or an entry whose      *)
(* bytes are d, whatever reads run beside the write.                       *)
(***************************************************************************)
C34_StripeCacheFresh ==
    \A s \in DOMAIN stored :
        ~Writing(s) =>
            \/ s \notin DOMAIN chunk_cache.entries
            \/ chunk_cache.entries[s].data = stored[s]

(***************************************************************************)
(* File-cache harness: the adaptor creates, writes, truncates, reads,      *)
(* unlinks and renames files on a mounted file system with a file cache.   *)
(* Every created file gets a number of its own; stored keeps, per path,    *)
(* the number of the file bound to the path, and saved keeps, per path,    *)
(* the number of the file whose bytes a read put into the file cache       *)
(* under that path.                                                        *)
(***************************************************************************)
MaxFcK == 1

MaxFcM == 1

MaxFcSteps == 7

FcPaths == {PathA, PathD}

\* the byte written to a file tells the paths apart
FcData(path) == IF path = PathA THEN <<1>> ELSE <<2>>

FcInit ==
    /\ k_ \in 1..MaxFcK
    /\ m_ \in 1..MaxFcM
    /\ now = 0
    /\ Mounted(NoBackends)
    /\ mounted = TRUE
    /\ HistIdle /\ CodecIdle /\ UpIdle

\* raidfs_create
FcCreate(path) ==
    /\ steps < MaxFcSteps
    /\ ~exists(files, path)
    /\ files' = create_file(files, path)
    /\ stored' = MapPut(stored, path, steps + 1)
    /\ hist' = <<Call("create", path, 0, 0, <<>>, TRUE, <<>>, FALSE)>>
    /\ steps' = steps + 1
    /\ UNCHANGED <<upVars, k_, m_, codecVars, storeVars, directories, chunk_cache, file_cache,
                   now, mounted, healing, saved, written>>

\* raidfs_unlink
FcUnlink(path) ==
    /\ steps < MaxFcSteps
    /\ exists(files, path)
    /\ files' = remove_file(files, path)
    /\ stored' = MapDrop(stored, path)
    /\ hist' = <<Call("unlink", path, 0, 0, <<>>, TRUE, <<>>, FALSE)>>
    /\ steps' = steps + 1
    /\ UNCHANGED <<upVars, k_, m_, codecVars, storeVars, directories, chunk_cache, file_cache,
                   now, mounted, healing, saved, written>>

\* raidfs_write: FileManager::write
FcWrite(path, data) ==
    /\ steps < MaxFcSteps
    /\ exists(files, path)
    /\ \E r \in {fm_write(World, path, 0, data)} :
           /\ SetWorld(r.w)
           /\ hist' = <<Call("write", path, 0, Len(data), data, r.ok, <<>>, FALSE)>>
    /\ steps' = steps + 1
    /\ UNCHANGED <<upVars, k_, m_, codecVars, directories, mounted, stored, healing, saved,
                   written>>

\* raidfs_truncate: FileManager::truncate
FcTruncate(path, size) ==
    /\ steps < MaxFcSteps
    /\ exists(files, path)
    /\ \E r \in {fm_truncate(World, path, size)} :
           /\ SetWorld(r.w)
           /\ hist' = <<Call("truncate", path, 0, size, <<>>, r.ok, <<>>, FALSE)>>
    /\ steps' = steps + 1
    /\ UNCHANGED <<upVars, k_, m_, codecVars, directories, mounted, stored, healing, saved,
                   written>>

\* FileManager::read answers read(path, 0, size) from the file cache
FromFileCache(path, size) ==
    /\ get_size(files, path) > 0
    /\ \E g \in {cache_get(file_cache, path, now, FileCfg)} :
           /\ g.hit
           /\ \/ size >= get_size(files, path)
              \/ size <= Len(g.data)

\* raidfs_read from offset 0: FileManager::read
FcRead(path, size) ==
    /\ steps < MaxFcSteps
    /\ exists(files, path)
    /\ \E r \in {fm_read(World, path, 0, size)} :
           /\ SetWorld(r.w)
           /\ hist' = <<Call("read", path, 0, size, <<>>, r.ok, r.out,
                             FromFileCache(path, size))>>
           /\ saved' = IF ~cache_get(file_cache, path, now, FileCfg).hit
                          /\ path \in DOMAIN r.w.file_cache.entries
                       THEN MapPut(saved, path, stored[path]) ELSE saved
    /\ steps' = steps + 1
    /\ UNCHANGED <<upVars, k_, m_, codecVars, directories, mounted, stored, healing,
                   written>>

\* raidfs_rename
FcRename(from, to) ==
    /\ steps < MaxFcSteps
    /\ \E r \in {raidfs_rename(files, directories, from, to)} :
           /\ files' = r.tbl
           /\ directories' = r.dirs
           /\ stored' = [p \in DOMAIN r.tbl \ {META_PATH} |->
                            IF r.err = "OK" /\ p = to THEN stored[from] ELSE stored[p]]
           /\ hist' = <<[op |-> "rename", from |-> from, to |-> to, err |-> r.err]>>
    /\ steps' = steps + 1
    /\ UNCHANGED <<upVars, k_, m_, codecVars, storeVars, chunk_cache, file_cache,
                   now, mounted, healing, saved, written>>

FcNext ==
    \/ \E path \in FcPaths : FcCreate(path)
    \/ \E path \in FcPaths : FcUnlink(path)
    \/ \E path \in FcPaths : FcWrite(path, FcData(path))
    \/ \E path \in FcPaths, size \in 0..1 : FcTruncate(path, size)
    \/ \E path \in FcPaths : FcRead(path, 1)
    \/ \E from \in FcPaths, to \in FcPaths : FcRename(from, to)
    \/ Tick

SpecFc == FcInit /\ [][FcNext]_vars

(***************************************************************************)
(* C35: a read of path p returns the bytes of the file now bound to p.  A  *)
(* read that is answered from the file cache returns an entry that was     *)
(* stored for that file: never one stored under p for a file that has      *)
(* been unlinked, or replaced by a rename onto p, since.                   *)
(***************************************************************************)
C35_FileCacheOfBoundFile ==
    (hist # <<>> /\ hist[1].op = "read" /\ hist[1].flag)
        => saved[hist[1].path] = stored[hist[1].path]

(***************************************************************************)
(* Allocation harness: main has loaded a metadata table and moved          *)
(* next_stripe_id past its stripe ids; two request threads then run        *)
(* FileManager::ensure_stripe, each for a file of its own.                 *)
(* allocate_new_stripe is "return next_stripe_id++" on a plain uint64_t    *)
(* with no lock: two threads in it race, and the increment is a read of    *)
(* the counter followed by a write of the value read plus one, with any    *)
(* step of the other thread in between.  hist lists the allocations made,  *)
(* written holds the stripe ids of the loaded table.                       *)
(***************************************************************************)
MaxIdCalls == 2

MaxIdIndex == 1

\* the stripe lists /a may have in the loaded table
IdLoaded == {<<>>, <<NEXT_STRIPE_ID_INIT + 1>>}

\* the file thread t writes to
IdPath(t) == IF t = 1 THEN PathA ELSE PathD

IdInit ==
    /\ k_ = 1 /\ m_ = 1
    /\ \E st \in IdLoaded :
           \E mt \in {mount_loaded(
                         [w |-> [backends |-> NoBackends, repairs |-> {},
                                 next_stripe_id |-> NEXT_STRIPE_ID_INIT,
                                 files |-> (PathA :> [size |-> Len(st) * STRIPE_SIZE,
                                                      stripes |-> st])
                                           @@ (PathD :> FileMeta),
                                 chunk_cache |-> EmptyCache, file_cache |-> EmptyCache,
                                 now |-> 0],
                          dirs |-> {}, ok |-> TRUE])} :
               /\ files = mt.w.files
               /\ next_stripe_id = mt.w.next_stripe_id
               /\ written = {st[i] : i \in 1..Len(st)}
    /\ backends = NoBackends /\ repairs = {}
    /\ directories = {} /\ chunk_cache = EmptyCache /\ file_cache = EmptyCache
    /\ now = 0 /\ mounted = TRUE
    /\ hist = <<>> /\ stored = EmptyMap /\ healing = {} /\ saved = EmptyMap /\ steps = 0
    /\ spool = EmptyMap /\ queue = <<>> /\ pending_stripes = EmptyMap
    /\ running = FALSE /\ workers = <<>> /\ flush_pc = "idle"
    /\ gave_up = {} /\ rejects = 0 /\ clean = FALSE /\ crashes = 0
    /\ writer = NoWriter
    /\ threads = [t \in ScThreads |-> IdleThread]
    /\ CodecIdle

\* ensure_stripe(path, stripe_index): an index the file has returns at once
IdEnsure(t, stripe_index) ==
    /\ threads[t].pc = "idle"
    /\ steps < MaxIdCalls
    /\ steps' = steps + 1
    /\ threads' = [threads EXCEPT ![t] =
                      IF stripe_index < Len(get_stripes(files, IdPath(t))) THEN IdleThread
                      ELSE [pc |-> "load", op |-> "ensure_stripe",
                            stripe_id |-> 0, data |-> <<stripe_index>>]]
    /\ UNCHANGED <<k_, m_, codecVars, storeVars, fsVars, hist, stored, healing, saved,
                   written, spool, queue, pending_stripes, running, workers, flush_pc,
                   gave_up, rejects, clean, crashes, writer>>

\* allocate_new_stripe: next_stripe_id is read
IdLoad(t) ==
    /\ threads[t].pc = "load"
    /\ threads' = [threads EXCEPT ![t].pc = "store", ![t].stripe_id = next_stripe_id]
    /\ UNCHANGED <<k_, m_, codecVars, storeVars, fsVars, histVars, spool, queue,
                   pending_stripes, running, workers, flush_pc, gave_up, rejects, clean,
                   crashes, writer>>

\* allocate_new_stripe: the value read plus one is written back
IdStore(t) ==
    /\ threads[t].pc = "store"
    /\ next_stripe_id' = threads[t].stripe_id + 1
    /\ threads' = [threads EXCEPT ![t].pc = "add"]
    /\ UNCHANGED <<k_, m_, codecVars, backends, repairs, fsVars, histVars, spool, queue,
                   pending_stripes, running, workers, flush_pc, gave_up, rejects, clean,
                   crashes, writer>>

\* meta->add_stripe(path, new_id), then the loop test
IdAdd(t) ==
    /\ threads[t].pc = "add"
    /\ files' = add_stripe(files, IdPath(t), threads[t].stripe_id)
    /\ hist' = Append(hist, [path |-> IdPath(t),
                             index |-> Len(get_stripes(files, IdPath(t))),
                             id |-> threads[t].stripe_id])
    /\ threads' = [threads EXCEPT ![t] =
                      IF Len(get_stripes(files, IdPath(t))) + 1 <= threads[t].data[1]
                      THEN [@ EXCEPT !.pc = "load"] ELSE IdleThread]
    /\ UNCHANGED <<k_, m_, codecVars, storeVars, directories, chunk_cache, file_cache, now,
                   mounted, stored, healing, saved, written, steps, spool, queue,
                   pending_stripes, running, workers, flush_pc, gave_up, rejects, clean,
                   crashes, writer>>

IdNext ==
    \/ \E t \in ScThreads, stripe_index \in 0..MaxIdIndex : IdEnsure(t, stripe_index)
    \/ \E t \in ScThreads : IdLoad(t)
    \/ \E t \in ScThreads : IdStore(t)
    \/ \E t \in ScThreads : IdAdd(t)

SpecId == IdInit /\ [][IdNext]_vars

(***************************************************************************)
(* C36: no stripe id is given to two (file, stripe index) slots: the ids   *)
(* allocate_new_stripe returned are pairwise distinct, and each is greater *)
(* than every stripe id of the loaded metadata, also when the requests     *)
(* for two files run side by side.                                         *)
(***************************************************************************)
C36_StripeIdsDistinct ==
    /\ \A i, j \in 1..Len(hist) : i # j => hist[i].id # hist[j].id
    /\ \A i \in 1..Len(hist) : \A s \in written : hist[i].id > s

(***************************************************************************)
(* Recovery harness: the process is down and the spool directory holds     *)
(* any set of chunk files of a few stripes, among them one whose chunk     *)
(* index is past the last shard; it is started (constructor,               *)
(* recover_pending_uploads, start) and the workers upload what was found.  *)
(***************************************************************************)
MaxRcK == 1

MaxRcM == 1

MaxRcStripes == 1

\* the plaintext whose shards were spooled
RcData == Filled(1, 1)

\* chunk files a directory listing may show
RcPaths == {get_chunk_cache_path(s, i) : s \in 1..MaxRcStripes, i \in 0..(k_ + m_)}

\* the bytes of a spooled chunk file
RcFile(p) ==
    IF parse_chunk_index(p) \in Shards THEN encode(RcData, k_, m_)[parse_chunk_index(p)]
    ELSE <<>>

RcInit ==
    /\ k_ \in 1..MaxRcK
    /\ m_ \in 1..MaxRcM
    /\ backends = NoBackends
    /\ repairs = {}
    /\ next_stripe_id = NEXT_STRIPE_ID_INIT
    /\ \E found \in SUBSET RcPaths : spool = [p \in found |-> RcFile(p)]
    /\ queue = <<>> /\ pending_stripes = EmptyMap
    /\ running = FALSE
    /\ workers = [w \in Workers |-> IdleWorker]
    /\ flush_pc = "idle"
    /\ gave_up = {} /\ rejects = 0 /\ clean = FALSE /\ crashes = 1
    /\ writer = NoWriter /\ threads = NoThreads
    /\ HistIdle /\ CodecIdle /\ FsIdle

RcNext ==
    \/ UpRestart
    \/ \E w \in Workers : WorkerPop(w)
    \/ \E w \in Workers, accept \in BOOLEAN : WorkerProcess(w, accept)
    \/ \E w \in Workers : WorkerMark(w)
    \/ \E w \in Workers : WorkerRemove(w)
    \/ \E w \in Workers : WorkerRetry(w)
    \/ \E w \in Workers : WorkerGiveUp(w)

SpecRc == RcInit /\ [][RcNext]_vars

MaxStK == 1

MaxStM == 1

MaxStWrites == 2

\* the thread that calls stop
StopThread == [IdleThread EXCEPT !.op = "stop"]

\* a worker at the top of the loop of worker_func
LoopWorker == [pc |-> "test", task |-> NoTask, data |-> <<>>]

StInit ==
    /\ k_ \in 1..MaxStK
    /\ m_ \in 1..MaxStM
    /\ backends = NoBackends
    /\ repairs = {}
    /\ next_stripe_id = NEXT_STRIPE_ID_INIT
    /\ spool = EmptyMap /\ queue = <<>> /\ pending_stripes = EmptyMap
    /\ running = TRUE
    /\ workers = [w \in Workers |-> LoopWorker]
    /\ flush_pc = "idle"
    /\ gave_up = {} /\ rejects = 0 /\ clean = FALSE /\ crashes = 0
    /\ writer = NoWriter /\ threads = <<StopThread>>
    /\ HistIdle /\ CodecIdle /\ FsIdle

\* no worker is between its lock of queue_mutex_ and its wait or pop
StMutexFree == \A w \in Workers : workers[w].pc \notin {"locked", "towait"}

\* queue_cv_.notify_all: every thread blocked in the wait is made runnable
notify_all(ws) ==
    [w \in DOMAIN ws |-> IF ws[w].pc = "waiting" THEN [ws[w] EXCEPT !.pc = "woken"]
                         ELSE ws[w]]

\* queue_cv_.notify_one taken by worker v, or by nobody when none waits
notify_one(ws, v) ==
    IF v \in DOMAIN ws /\ ws[v].pc = "waiting" THEN [ws EXCEPT ![v].pc = "woken"] ELSE ws

\* async_write_stripe before stop is called
StAsyncWrite(s, d) ==
    /\ threads[1].pc = "idle"
    /\ StMutexFree
    /\ steps < MaxStWrites
    /\ steps' = steps + 1
    /\ \E r \in {async_write_stripe([spool |-> spool, queue |-> queue,
                                     pending_stripes |-> pending_stripes], s, d)} :
           /\ spool' = r.spool
           /\ queue' = r.queue
           /\ pending_stripes' = r.pending_stripes
           /\ workers' = IF r.ok THEN notify_all(workers) ELSE workers
    /\ UNCHANGED <<k_, m_, codecVars, storeVars, fsVars, hist, stored, healing, saved,
                   written, running, flush_pc, gave_up, rejects, clean, crashes, writer,
                   threads>>

\* worker_func: while (running_.load())
StTest(w) ==
    /\ workers[w].pc = "test"
    /\ workers' = [workers EXCEPT ![w].pc = IF running THEN "lock" ELSE "exited"]
    /\ UNCHANGED <<k_, m_, codecVars, storeVars, fsVars, histVars, spool, queue,
                   pending_stripes, running, flush_pc, gave_up, rejects, clean, crashes,
                   writer, threads>>

\* worker_func: queue_mutex_ is locked, at the start or when the wait is left
StLock(w) ==
    /\ workers[w].pc \in {"lock", "woken"}
    /\ StMutexFree
    /\ workers' = [workers EXCEPT ![w].pc = "locked"]
    /\ UNCHANGED <<k_, m_, codecVars, storeVars, fsVars, histVars, spool, queue,
                   pending_stripes, running, flush_pc, gave_up, rejects, clean, crashes,
                   writer, threads>>

\* worker_func: the predicate of the wait with the mutex held; when it holds,
\* the thread leaves the loop or takes the first task, else it is about to wait
StPredicate(w) ==
    /\ workers[w].pc = "locked"
    /\ IF queue # <<>>
       THEN /\ workers' = [workers EXCEPT ![w] = [pc |-> "process", task |-> Head(queue),
                                                  data |-> <<>>]]
            /\ queue' = Tail(queue)
       ELSE /\ workers' = [workers EXCEPT ![w].pc = IF ~running THEN "exited" ELSE "towait"]
            /\ UNCHANGED queue
    /\ UNCHANGED <<k_, m_, codecVars, storeVars, fsVars, histVars, spool,
                   pending_stripes, running, flush_pc, gave_up, rejects, clean, crashes,
                   writer, threads>>

\* condition_variable::wait: the mutex is released and the thread blocks
StWait(w) ==
    /\ workers[w].pc = "towait"
    /\ workers' = [workers EXCEPT ![w].pc = "waiting"]
    /\ UNCHANGED <<k_, m_, codecVars, storeVars, fsVars, histVars, spool, queue,
                   pending_stripes, running, flush_pc, gave_up, rejects, clean, crashes,
                   writer, threads>>

\* condition_variable::wait may return without a notification
StSpurious(w) ==
    /\ workers[w].pc = "waiting"
    /\ workers' = [workers EXCEPT ![w].pc = "woken"]
    /\ UNCHANGED <<k_, m_, codecVars, storeVars, fsVars, histVars, spool, queue,
                   pending_stripes, running, flush_pc, gave_up, rejects, clean, crashes,
                   writer, threads>>

\* worker_func: process_task, then mark_chunk_done and remove_cache, or the
\* retry count, or the task given up
StProcess(w, accept) ==
    /\ workers[w].pc = "process"
    /\ accept \/ rejects < MaxRejects
    /\ \E r \in {process_task(spool, workers[w].task)} :
           IF r.ok /\ accept
           THEN /\ backends' = [backends EXCEPT ![workers[w].task.chunk_index] =
                                    MapPut(@, workers[w].task.stripe_id, r.data)]
                /\ pending_stripes' =
                       mark_chunk_done(pending_stripes,
                                       workers[w].task.stripe_id).pending_stripes
                /\ spool' = remove_cache(spool, workers[w].task.local_cache_path)
                /\ workers' = [workers EXCEPT ![w] = LoopWorker]
                /\ UNCHANGED <<rejects, gave_up>>
           ELSE /\ rejects' = IF r.ok THEN rejects + 1 ELSE rejects
                /\ IF workers[w].task.retry_count + 1 < max_retries
                   THEN /\ workers' = [workers EXCEPT ![w].pc = "requeue",
                                                      ![w].task.retry_count = @ + 1]
                        /\ UNCHANGED <<pending_stripes, gave_up>>
                   ELSE /\ workers' = [workers EXCEPT ![w] = LoopWorker]
                        /\ gave_up' = gave_up \cup {<<workers[w].task.stripe_id,
                                                      workers[w].task.chunk_index>>}
                        /\ pending_stripes' =
                               mark_chunk_done(pending_stripes,
                                               workers[w].task.stripe_id).pending_stripes
                /\ UNCHANGED <<backends, spool>>
    /\ UNCHANGED <<k_, m_, codecVars, repairs, next_stripe_id, fsVars, histVars, queue,
                   running, flush_pc, clean, crashes, writer, threads>>

\* worker_func: the failed task is pushed back, notify_one (taken by v)
StRequeue(w, v) ==
    /\ workers[w].pc = "requeue"
    /\ StMutexFree
    /\ queue' = Append(queue, workers[w].task)
    /\ workers' = notify_one([workers EXCEPT ![w] = LoopWorker], v)
    /\ UNCHANGED <<k_, m_, codecVars, storeVars, fsVars, histVars, spool,
                   pending_stripes, running, flush_pc, gave_up, rejects, clean, crashes,
                   writer, threads>>

\* stop: running_.exchange(false)
StStopFlag ==
    /\ threads[1].pc = "idle"
    /\ running
    /\ running' = FALSE
    /\ threads' = [threads EXCEPT ![1].pc = "notify"]
    /\ UNCHANGED <<k_, m_, codecVars, storeVars, fsVars, histVars, spool, queue,
                   pending_stripes, workers, flush_pc, gave_up, rejects, clean, crashes,
                   writer>>

\* stop: queue_cv_.notify_all()
StStopNotify ==
    /\ threads[1].pc = "notify"
    /\ workers' = notify_all(workers)
    /\ threads' = [threads EXCEPT ![1].pc = "join"]
    /\ UNCHANGED <<k_, m_, codecVars, storeVars, fsVars, histVars, spool, queue,
                   pending_stripes, running, flush_pc, gave_up, rejects, clean, crashes,
                   writer>>

\* stop: every worker thread joined, workers_.clear(), return
StStopJoin ==
    /\ threads[1].pc = "join"
    /\ \A w \in Workers : workers[w].pc = "exited"
    /\ threads' = [threads EXCEPT ![1].pc = "returned"]
    /\ UNCHANGED <<k_, m_, codecVars, storeVars, fsVars, histVars, spool, queue,
                   pending_stripes, running, workers, flush_pc, gave_up, rejects, clean,
                   crashes, writer>>

\* one statement of worker w
StWorker(w) ==
    \/ StTest(w)
    \/ StLock(w)
    \/ StPredicate(w)
    \/ StWait(w)
    \/ \E accept \in BOOLEAN : StProcess(w, accept)
    \/ \E v \in Workers \cup {0} : StRequeue(w, v)

StNext ==
    \/ \E s \in RaidStripes, d \in UpData(steps) : StAsyncWrite(s, d)
    \/ \E w \in Workers : StTest(w)
    \/ \E w \in Workers : StLock(w)
    \/ \E w \in Workers : StPredicate(w)
    \/ \E w \in Workers : StWait(w)
    \/ \E w \in Workers : StSpurious(w)
    \/ \E w \in Workers, accept \in BOOLEAN : StProcess(w, accept)
    \/ \E w \in Workers, v \in Workers \cup {0} : StRequeue(w, v)
    \/ StStopFlag
    \/ StStopNotify
    \/ StStopJoin

SpecSt == StInit /\ [][StNext]_vars

\* every thread that can take a step takes one in the end; a wait returns
\* only when it is notified
SpecStLive ==
    /\ StInit
    /\ [][StNext]_vars
    /\ \A w \in 1..worker_threads : WF_vars(w \in Workers /\ StWorker(w))
    /\ WF_vars(StStopFlag)
    /\ WF_vars(StStopNotify)
    /\ WF_vars(StStopJoin)

(***************************************************************************)
(* C38: stop drains the queue.  When stop has returned, the upload queue   *)
(* is empty: every task queued when stop was called has been processed.    *)
(***************************************************************************)
C38_StopDrainsQueue ==
    threads[1].pc = "returned" => queue = <<>>

(***************************************************************************)
(* C39: stop returns.  Once stop has been called, it returns: every        *)
(* worker, waiting or busy, sees the flag and exits, whatever the          *)
(* interleaving of stop with the worker's predicate test and wait.         *)
(***************************************************************************)
C39_StopReturns ==
    (threads # NoThreads /\ threads[1].pc = "notify")
        ~> (threads # NoThreads /\ threads[1].pc = "returned")

(***************************************************************************)
(* Crashed-write harness: the spool harness with the plaintexts of the     *)
(* calls of async_write_stripe kept in hist, and the crash that falls      *)
(* inside a call noted in saved (the stripe, the number of calls made and  *)
(* the place the call had reached).                                        *)
(***************************************************************************)
MaxCwK == 2

MaxCwM == 1

CwInit ==
    /\ k_ \in 1..MaxCwK
    /\ m_ \in 1..MaxCwM
    /\ backends = NoBackends
    /\ repairs = {}
    /\ next_stripe_id = NEXT_STRIPE_ID_INIT
    /\ spool = EmptyMap /\ queue = <<>> /\ pending_stripes = EmptyMap
    /\ running = TRUE
    /\ workers = [w \in Workers |-> IdleWorker]
    /\ flush_pc = "idle"
    /\ gave_up = {} /\ rejects = 0 /\ clean = FALSE /\ crashes = 0
    /\ writer = NoWriter /\ threads = NoThreads
    /\ HistIdle /\ CodecIdle /\ FsIdle

\* async_write_stripe up to the first save_chunk_to_cache: queue test, encode
CwBegin(s, d) ==
    /\ running
    /\ writer.pc = "idle"
    /\ steps < MaxSpWrites
    /\ steps' = steps + 1
    /\ Len(queue) < max_queue_size
    /\ writer' = [pc |-> "open", stripe_id |-> s, index |-> 0,
                  chunks |-> encode(d, k_, m_)]
    /\ hist' = Append(hist, [op |-> "write", stripe |-> s, data |-> d])
    /\ UNCHANGED <<k_, m_, codecVars, storeVars, fsVars, stored, healing, saved, written,
                   spool, queue, pending_stripes, running, workers, flush_pc, gave_up,
                   rejects, clean, crashes, threads>>

\* the process dies, inside a call of async_write_stripe or not
CwCrash ==
    /\ running
    /\ crashes < MaxCrashes
    /\ crashes' = crashes + 1
    /\ running' = FALSE
    /\ queue' = <<>>
    /\ pending_stripes' = EmptyMap
    /\ workers' = [w \in Workers |-> IdleWorker]
    /\ writer' = NoWriter
    /\ saved' = IF writer.pc = "idle" THEN saved
                ELSE [stripe |-> writer.stripe_id, calls |-> Len(hist),
                      pc |-> writer.pc, index |-> writer.index]
    /\ UNCHANGED <<k_, m_, codecVars, storeVars, fsVars, hist, stored, healing, written,
                   steps, spool, flush_pc, gave_up, rejects, clean, threads>>

CwNext ==
    \/ \E s \in RaidStripes, d \in UpData(steps) : CwBegin(s, d)
    \/ SpOpen
    \/ \E n \in {1, HeaderLen} : SpFlush(n)
    \/ SpClose
    \/ \E w \in Workers : WorkerPop(w)
    \/ \E w \in Workers, accept \in BOOLEAN : WorkerProcess(w, accept)
    \/ \E w \in Workers : WorkerMark(w)
    \/ \E w \in Workers : WorkerRemove(w)
    \/ \E w \in Workers : WorkerRetry(w)
    \/ \E w \in Workers : WorkerGiveUp(w)
    \/ CwCrash
    \/ SpRestart

SpecCw == CwInit /\ [][CwNext]_vars

\* the process died inside a call of async_write_stripe, has been started
\* again, has uploaded all it recovered, and no call was made since
Recovered ==
    /\ DOMAIN saved # {}
    /\ running
    /\ Len(hist) = saved.calls
    /\ queue = <<>>
    /\ pending_stripes = EmptyMap
    /\ \A w \in Workers : workers[w] = IdleWorker

\* the plaintexts handed to async_write_stripe for the stripe of the crashed
\* call by the calls that returned
EarlierWrites == {j \in 1..(Len(hist) - 1) : hist[j].stripe = saved.stripe}

\* the last of them
LastEarlier == CHOOSE j \in EarlierWrites : \A i \in EarlierWrites : i <= j

\* every backend holds its shard of plaintext d for the stripe of the crashed
\* call
HoldsAll(d) ==
    \A i \in Shards :
        /\ saved.stripe \in DOMAIN backends[i]
        /\ backends[i][saved.stripe] = encode(d, k_, m_)[i]

\* read_chunk of the stripe of the crashed call gives plaintext d
ReadsAs(d) ==
    /\ raid_read_chunk(backends, saved.stripe).ok
    /\ raid_read_chunk(backends, saved.stripe).data = d

(***************************************************************************)
(* C40: a crash inside async_write_stripe.  When the process died inside   *)
(* async_write_stripe(s, d) and has been started again and has uploaded    *)
(* what it recovered, the backends hold for s every shard of the plaintext *)
(* stored before (nothing readable when there was none) or every shard of  *)
(* d, or at least a mixture that reads as one of the two plaintexts.       *)
(***************************************************************************)
C40_CrashedWriteOldOrNew ==
    Recovered =>
        \/ HoldsAll(Last(hist).data)
        \/ ReadsAs(Last(hist).data)
        \/ /\ EarlierWrites # {}
           /\ \/ HoldsAll(hist[LastEarlier].data)
              \/ ReadsAs(hist[LastEarlier].data)
        \/ /\ EarlierWrites = {}
           /\ ~raid_read_chunk(backends, saved.stripe).ok

====
